---- MODULE Spec2Model ----
(***************************************************************************)
(* Verification model of the kube-rs core.                                 *)
(*   Part 1: the lease elector (kube-runtime/src/lease.rs).                *)
(*   Part 2: the reflector store (reflector::store Writer / Store).        *)
(***************************************************************************)
EXTENDS Integers, Sequences, FiniteSets, TLC

(***************************************************************************)
(* Part 1.  Lease elector                                                  *)
(***************************************************************************)

\* The electors sharing one (api, lease_name); the names are their identities.
Electors == {"a", "b"}

\* Option::None of holder_identity, and of the time / duration fields.
NoHolder == "none"
NoTime == -1

\* lease_duration_secs handed to Elector::new (the same for every elector).
LeaseDuration == 4

\* Real time runs from 0 to MaxTime.
MaxTime == 6

\* Offsets of the electors' clocks from real time (LeaseDuration > 2 * skew).
Skews == {0, 1}

VARIABLES
    time,       \* real time
    skew,       \* skew[e]: offset of e's Utc::now() from real time
    lease,      \* the server-side Lease object
    pc,         \* pc[e]: where elector e's run is
    now,        \* now[e]: the `now` that e's loop iteration captured
    entry,      \* entry[e]: the Entry e read (and edited) and has yet to commit
    wake,       \* wake[e]: the clock value at which e's tokio sleep ends
    conflict,   \* conflict[e]: expires_at of the last TryAcquireError::Conflict of e's acquire
    seen,       \* seen[e]: resourceVersion last delivered by e's watch_object stream
    err,        \* err[e]: the error run returned, <<>> when none
    store,      \* the store's shared map cell
    draft,      \* the writer's private working copy
    wpc,        \* where the writer is in apply_watcher_event
    wev,        \* the event the writer is applying
    todo,       \* objects of a Restarted the writer has yet to insert
    applied,    \* events the writer has applied, in order
    snap        \* snap[r]: what reader r's last state() returned

leaseVars == <<time, skew, lease, pc, now, entry, wake, conflict, seen, err>>
storeVars == <<store, draft, wpc, wev, todo, applied, snap>>

\* The reflector pipeline (Part 3).
VARIABLES
    received,   \* items the reflector has taken from the watcher stream, in order
    pending,    \* the item the reflector holds between inspecting and yielding it
    observed,   \* items the reflector has yielded downstream, in order
    readAt      \* how many items the consumer had observed at its last read

reflVars == <<received, pending, observed, readAt>>

\* The watcher (Part 4).
VARIABLES
    wst,        \* the watcher's state: Empty (listing) or Watching
    wreq,       \* the last request the watcher built
    emitted,    \* items the watcher has emitted, in order
    fresh,      \* events emitted since the watcher was last Empty
    wlog        \* the server's answers so far, in order

watcherVars == <<wst, wreq, emitted, fresh, wlog>>

\* await_condition (Part 5).
VARIABLES
    awCond,     \* the predicate waited for: the states of the object it accepts
    awObs,      \* what the wait has observed: the get, then the watch events
    awOut       \* how the wait stands: waiting, resolved or abandoned

waitVars == <<awCond, awObs, awOut>>

\* The WebSocket upgrade (Part 6).
VARIABLES
    res,        \* the response to the upgrade request: status and headers
    wsKey,      \* the Sec-WebSocket-Key the request was sent with
    verdict,    \* what verify_response returned, <<>> before the call
    wsOffer,    \* the request sent: exec (or attach) or portforward
    connected   \* what verify_upgrade_response returned, <<>> before the call

upgradeVars == <<res, wsKey, verdict, wsOffer, connected>>

\* The flattened event stream (Part 7).
VARIABLES
    fsrc,       \* every item the underlying stream has been given, in order
    fin,        \* the items of the underlying stream not yet polled out of it
    fended,     \* whether the underlying stream has come to its end
    fdelete,    \* EventFlatten::delete
    fstate,     \* EventFlatten::state
    fout,       \* the items the flattened stream has yielded, in order
    ftrace      \* the result of each poll of the flattened stream, and the end

flattenVars == <<fsrc, fin, fended, fdelete, fstate, fout, ftrace>>

\* The client's request operations (Part 8).
VARIABLES
    call,       \* the operation called and the response the server gave it
    outcome     \* what the operation returned, <<>> before it returns

clientVars == <<call, outcome>>

\* request_events (Part 9).
VARIABLES
    frames,     \* what the body of the response has delivered, in order
    partial,    \* bytes read after the last newline, not yet a line
    yielded,    \* the items request_events has yielded, in order
    phase       \* the body: open, errored, or ended

eventsVars == <<frames, partial, yielded, phase>>

\* The conversion envelope (Part 10).
VARIABLES
    cvIn,       \* the ConversionReview the apiserver sent, <<>> when none
    cvReq,      \* the ConversionRequest taken out of a review, <<>> when none
    cvResp,     \* the ConversionResponse being built, <<>> when none
    cvCalls,    \* the constructor and builder calls that made cvResp, in order
    cvGiven,    \* the list the last call of success was given
    cvReview,   \* what into_review returned, <<>> before the call
    cvValue,    \* the value that was serialized, <<>> when none was
    cvDoc,      \* the JSON document read or written
    cvBack      \* what deserializing cvDoc gave

convVars == <<cvIn, cvReq, cvResp, cvCalls, cvGiven, cvReview, cvValue, cvDoc, cvBack>>

\* The request builders (Part 11).
VARIABLES
    vcall,      \* the verb asked for and its arguments, <<>> before the call
    vreq        \* what to_http_request returned

verbVars == <<vcall, vreq>>

\* The error boundary (Part 12).
VARIABLES
    blist,      \* the items of the JSON list that was deserialized
    bout        \* what deserializing the list gave

boundaryVars == <<blist, bout>>

\* to_plural (Part 13).
VARIABLES
    word,       \* the word given to to_plural
    plural,     \* what to_plural returned
    overflowChecks  \* whether the build checks integer arithmetic for overflow

pluralVars == <<word, plural, overflowChecks>>

\* The log request (Part 14).
VARIABLES
    logCall,    \* the pod name and the LogParams given to logs, <<>> before the call
    logReq      \* what logs returned

logVars == <<logCall, logReq>>

\* The variables of the parts after the store.
laterVars == <<reflVars, watcherVars, waitVars, upgradeVars, flattenVars, clientVars,
              eventsVars, convVars, verbVars, boundaryVars, pluralVars, logVars>>

vars == <<leaseVars, storeVars, laterVars>>

\* The parts from the conversion envelope on.
lastVars == <<convVars, verbVars, boundaryVars, pluralVars, logVars>>

\* What the actions of one part leave alone.
notLease == <<storeVars, laterVars>>
notStore == <<leaseVars, laterVars>>
notRefl == <<leaseVars, draft, wpc, wev, todo, watcherVars, waitVars, upgradeVars,
            flattenVars, clientVars, eventsVars, lastVars>>
notWatcher == <<leaseVars, storeVars, reflVars, waitVars, upgradeVars, flattenVars,
               clientVars, eventsVars, lastVars>>
notWait == <<leaseVars, storeVars, reflVars, watcherVars, upgradeVars, flattenVars,
            clientVars, eventsVars, lastVars>>
notUpgrade == <<leaseVars, storeVars, reflVars, watcherVars, waitVars, flattenVars,
               clientVars, eventsVars, lastVars>>
notFlatten == <<leaseVars, storeVars, reflVars, watcherVars, waitVars, upgradeVars,
               clientVars, eventsVars, lastVars>>
notEvents == <<leaseVars, storeVars, reflVars, watcherVars, waitVars, upgradeVars,
              flattenVars, clientVars, lastVars>>
notClient == <<leaseVars, storeVars, reflVars, watcherVars, waitVars, upgradeVars,
              flattenVars, eventsVars, lastVars>>

notConv == <<leaseVars, storeVars, reflVars, watcherVars, waitVars, upgradeVars,
            flattenVars, clientVars, eventsVars, verbVars, boundaryVars, pluralVars,
            logVars>>
notVerb == <<leaseVars, storeVars, reflVars, watcherVars, waitVars, upgradeVars,
            flattenVars, clientVars, eventsVars, convVars, boundaryVars, pluralVars,
            logVars>>
notBoundary == <<leaseVars, storeVars, reflVars, watcherVars, waitVars, upgradeVars,
                flattenVars, clientVars, eventsVars, convVars, verbVars, pluralVars,
                logVars>>
notPlural == <<leaseVars, storeVars, reflVars, watcherVars, waitVars, upgradeVars,
              flattenVars, clientVars, eventsVars, convVars, verbVars, boundaryVars,
              logVars>>
notLog == <<leaseVars, storeVars, reflVars, watcherVars, waitVars, upgradeVars,
           flattenVars, clientVars, eventsVars, convVars, verbVars, boundaryVars,
           pluralVars>>

\* The parts after the store before anything is fed to them.
ReflIdle ==
    /\ received = <<>>
    /\ pending = <<>>
    /\ observed = <<>>
    /\ readAt = 0

WatcherIdle ==
    /\ wst = [tag |-> "Empty", rv |-> "<none>", continue_token |-> "<none>",
              objects |-> <<>>, open |-> FALSE]
    /\ wreq = <<>>
    /\ emitted = <<>>
    /\ fresh = <<>>
    /\ wlog = <<>>

WaitIdle ==
    /\ awCond = {"Running"}
    /\ awObs = <<>>
    /\ awOut = [tag |-> "waiting", value |-> "None"]

UpgradeIdle ==
    /\ res = <<>>
    /\ wsKey = ""
    /\ verdict = <<>>
    /\ wsOffer = ""
    /\ connected = <<>>

FlattenIdle ==
    /\ fsrc = <<>>
    /\ fin = <<>>
    /\ fended = FALSE
    /\ fdelete = FALSE
    /\ fstate = <<>>
    /\ fout = <<>>
    /\ ftrace = <<>>

ClientIdle ==
    /\ call = <<>>
    /\ outcome = <<>>

EventsIdle ==
    /\ frames = <<>>
    /\ partial = <<>>
    /\ yielded = <<>>
    /\ phase = "open"

ConvIdle ==
    /\ cvIn = <<>>
    /\ cvReq = <<>>
    /\ cvResp = <<>>
    /\ cvCalls = <<>>
    /\ cvGiven = <<>>
    /\ cvReview = <<>>
    /\ cvValue = <<>>
    /\ cvDoc = <<>>
    /\ cvBack = <<>>

VerbIdle ==
    /\ vcall = <<>>
    /\ vreq = <<>>

BoundaryIdle ==
    /\ blist = <<>>
    /\ bout = <<>>

PluralIdle ==
    /\ word = <<>>
    /\ plural = <<>>
    /\ overflowChecks = FALSE

LogIdle ==
    /\ logCall = <<>>
    /\ logReq = <<>>

LastIdle == ConvIdle /\ VerbIdle /\ BoundaryIdle /\ PluralIdle /\ LogIdle

LaterIdle ==
    /\ ReflIdle /\ WatcherIdle /\ WaitIdle /\ UpgradeIdle /\ FlattenIdle /\ ClientIdle
    /\ EventsIdle /\ LastIdle

\* Lease::default(): no spec, which get_or_insert_with(LeaseSpec::default) fills
\* with empty fields; exists = FALSE is the vacant Entry.
DefaultLease ==
    [exists |-> FALSE, holder |-> NoHolder, acquire_time |-> NoTime,
     renew_time |-> NoTime, duration |-> NoTime, transitions |-> 0, rv |-> 0]

\* Utc::now() on elector e.
Clock(e) == time + skew[e]

\* (a state that computes an expiry from whatever is stored)
HasExpiryBug(l) == TRUE

HasExpiry(l) == l.duration # NoTime /\ l.renew_time # NoTime

\* Elector::state
StateBug(l, id) ==
    IF l.holder = NoHolder THEN [kind |-> "Unheld", holder |-> NoHolder, at |-> NoTime]
    ELSE IF l.holder = id
    THEN [kind |-> "HeldBySelf", holder |-> id,
          at |-> IF HasExpiry(l) THEN l.renew_time + (l.duration \div 2) ELSE NoTime]
    ELSE [kind |-> "HeldByOther", holder |-> l.holder,
          at |-> IF HasExpiry(l) THEN l.renew_time + 2 * l.duration ELSE NoTime]

State(l, id) ==
    IF l.holder = NoHolder THEN [kind |-> "Unheld", holder |-> NoHolder, at |-> NoTime]
    ELSE IF l.holder = id
    THEN [kind |-> "HeldBySelf", holder |-> id,
          at |-> IF HasExpiry(l) THEN l.renew_time + (l.duration \div 2) ELSE NoTime]
    ELSE [kind |-> "HeldByOther", holder |-> l.holder,
          at |-> IF HasExpiry(l) THEN l.renew_time + l.duration ELSE NoTime]

\* try_acquire, lines 104-117: the Conflict early return.
IsConflict(l, id, t) ==
    LET s == State(l, id)
    IN  s.kind = "HeldByOther" /\ s.at # NoTime /\ s.at > t

\* (a try_acquire that writes every commit as a takeover)
AcquiredBug(l, id, t) ==
    [l EXCEPT !.holder = id, !.acquire_time = t, !.transitions = l.transitions + 1,
              !.renew_time = t, !.duration = LeaseDuration]

\* try_acquire, lines 119-125: the edit of the entry before the commit.
Acquired(l, id, t) ==
    LET taken == IF State(l, id).kind = "HeldBySelf" THEN l
                 ELSE [l EXCEPT !.holder = id, !.acquire_time = t,
                                !.transitions = l.transitions + 1]
    IN  [taken EXCEPT !.renew_time = t, !.duration = LeaseDuration]

\* release, lines 148-152: the edit of the entry before the commit.
ReleasedBug(l) ==
    [l EXCEPT !.holder = NoHolder, !.acquire_time = NoTime,
              !.duration = NoTime, !.transitions = l.transitions + 1]

Released(l) ==
    [l EXCEPT !.holder = NoHolder, !.acquire_time = NoTime, !.renew_time = NoTime,
              !.duration = NoTime, !.transitions = l.transitions + 1]

\* Entry::commit: create when the entry was vacant, replace otherwise; the
\* server accepts the write only if the object is still the version read.
CommitOk(en) == en.exists = lease.exists /\ en.rv = lease.rv

Committed(en) == [en EXCEPT !.exists = TRUE, !.rv = lease.rv + 1]

\* sleep((at - now).to_std()): the sleep starts when it is called and lasts
\* at - now, with `now` the value captured at the top of the iteration.
SleepUntilBug(e, at) == Clock(e)

SleepUntil(e, at) == Clock(e) + (at - now[e])

AcquirePcs == {"acq_now", "acq_get", "acq_sleep", "acq_commit"}
RenewPcs == {"watch", "ren_sleep", "ren_get", "ren_commit"}
ReleasePcs == {"rel_get", "rel_commit"}
InRun == AcquirePcs \cup RenewPcs \cup ReleasePcs

\* The user future is polled by select, next to the renewer.
TaskRunning(e) == pc[e] \in RenewPcs

LeaseIdle ==
    /\ time = 0
    /\ skew = [e \in Electors |-> 0]
    /\ lease = DefaultLease
    /\ pc = [e \in Electors |-> "idle"]
    /\ now = [e \in Electors |-> NoTime]
    /\ entry = [e \in Electors |-> DefaultLease]
    /\ wake = [e \in Electors |-> NoTime]
    /\ conflict = [e \in Electors |-> NoTime]
    /\ seen = [e \in Electors |-> NoTime]
    /\ err = [e \in Electors |-> <<>>]

\* The lease is missing, or exists with holder_identity = null.
LeaseInit ==
    /\ time = 0
    /\ \E s \in Skews : skew = [e \in Electors |-> IF e = "b" THEN s ELSE 0]
    /\ \E ex \in BOOLEAN : lease = [DefaultLease EXCEPT !.exists = ex]
    /\ pc = [e \in Electors |-> "idle"]
    /\ now = [e \in Electors |-> NoTime]
    /\ entry = [e \in Electors |-> DefaultLease]
    /\ wake = [e \in Electors |-> NoTime]
    /\ conflict = [e \in Electors |-> NoTime]
    /\ seen = [e \in Electors |-> NoTime]
    /\ err = [e \in Electors |-> <<>>]

\* run returns Err: every local of the call is dropped.
Fail(e, why) ==
    /\ pc' = [pc EXCEPT ![e] = "failed"]
    /\ err' = [err EXCEPT ![e] = why]
    /\ now' = [now EXCEPT ![e] = NoTime]
    /\ entry' = [entry EXCEPT ![e] = DefaultLease]
    /\ wake' = [wake EXCEPT ![e] = NoTime]
    /\ conflict' = [conflict EXCEPT ![e] = NoTime]
    /\ seen' = [seen EXCEPT ![e] = NoTime]

\* run is called.
Start(e) ==
    /\ pc[e] = "idle"
    /\ pc' = [pc EXCEPT ![e] = "acq_now"]
    /\ UNCHANGED <<time, skew, lease, now, entry, wake, conflict, seen, err>>
    /\ UNCHANGED notLease

\* acquire, line 79: let now = Utc::now().
AcquireNow(e) ==
    /\ pc[e] = "acq_now"
    /\ now' = [now EXCEPT ![e] = Clock(e)]
    /\ pc' = [pc EXCEPT ![e] = "acq_get"]
    /\ UNCHANGED <<time, skew, lease, entry, wake, conflict, seen, err>>
    /\ UNCHANGED notLease

\* acquire -> try_acquire: the entry read returns; Conflict starts the sleep of
\* lines 83-85, anything else edits the entry and goes on to commit.
AcquireGet(e) ==
    /\ pc[e] = "acq_get"
    /\ IF IsConflict(lease, e, now[e])
       THEN /\ pc' = [pc EXCEPT ![e] = "acq_sleep"]
            /\ conflict' = [conflict EXCEPT ![e] = State(lease, e).at]
            /\ wake' = [wake EXCEPT ![e] = SleepUntil(e, State(lease, e).at)]
            /\ UNCHANGED entry
       ELSE /\ pc' = [pc EXCEPT ![e] = "acq_commit"]
            /\ entry' = [entry EXCEPT ![e] = Acquired(lease, e, now[e])]
            /\ UNCHANGED <<conflict, wake>>
    /\ UNCHANGED <<time, skew, lease, now, seen, err>>
    /\ UNCHANGED notLease

\* acquire, lines 84-86: the sleep ends, continue the loop.
AcquireWake(e) ==
    /\ pc[e] = "acq_sleep"
    /\ Clock(e) >= wake[e]
    /\ pc' = [pc EXCEPT ![e] = "acq_now"]
    /\ wake' = [wake EXCEPT ![e] = NoTime]
    /\ now' = [now EXCEPT ![e] = NoTime]
    /\ UNCHANGED <<time, skew, lease, entry, conflict, seen, err>>
    /\ UNCHANGED notLease

\* (a try_acquire that writes the lease back whatever version it read)
AcquireCommitBug(e) ==
    /\ pc[e] = "acq_commit"
    /\ lease' = Committed(entry[e])
    /\ pc' = [pc EXCEPT ![e] = "watch"]
    /\ entry' = [entry EXCEPT ![e] = DefaultLease]
    /\ now' = [now EXCEPT ![e] = NoTime]
    /\ conflict' = [conflict EXCEPT ![e] = NoTime]
    /\ UNCHANGED <<wake, seen, err>>
    /\ UNCHANGED <<time, skew>>
    /\ UNCHANGED notLease

\* acquire -> try_acquire, lines 127-132, then run lines 40-43: the commit
\* returns; Ok starts the renewer and the user future, Err ends run.
AcquireCommit(e) ==
    /\ pc[e] = "acq_commit"
    /\ IF CommitOk(entry[e])
       THEN /\ lease' = Committed(entry[e])
            /\ pc' = [pc EXCEPT ![e] = "watch"]
            /\ entry' = [entry EXCEPT ![e] = DefaultLease]
            /\ now' = [now EXCEPT ![e] = NoTime]
            /\ conflict' = [conflict EXCEPT ![e] = NoTime]
            /\ UNCHANGED <<wake, seen, err>>
       ELSE /\ Fail(e, <<"Acquire", "Commit">>)
            /\ UNCHANGED lease
    /\ UNCHANGED <<time, skew>>
    /\ UNCHANGED notLease

\* (a renewer that watches the lease and never renews it)
RenewEventBug(e) ==
    /\ pc[e] = "watch"
    /\ seen[e] # lease.rv
    /\ seen' = [seen EXCEPT ![e] = lease.rv]
    /\ UNCHANGED <<time, skew, lease, pc, now, entry, wake, conflict, err>>
    /\ UNCHANGED notLease

\* keep_renewed, lines 54-66: the watch yields the lease (at first its current
\* state, later each change; StreamThenLatest hands over the latest one).
RenewEvent(e) ==
    /\ pc[e] = "watch"
    /\ seen[e] # lease.rv
    /\ seen' = [seen EXCEPT ![e] = lease.rv]
    /\ now' = [now EXCEPT ![e] = Clock(e)]
    /\ LET s == State(lease, e)
       IN  IF s.kind = "HeldBySelf" /\ s.at # NoTime /\ s.at - Clock(e) >= 0
           THEN /\ pc' = [pc EXCEPT ![e] = "ren_sleep"]
                /\ wake' = [wake EXCEPT ![e] = Clock(e) + (s.at - Clock(e))]
           ELSE /\ pc' = [pc EXCEPT ![e] = "ren_get"]
                /\ UNCHANGED wake
    /\ UNCHANGED <<time, skew, lease, entry, conflict, err>>
    /\ UNCHANGED notLease

\* keep_renewed, line 64: the sleep ends.
RenewWake(e) ==
    /\ pc[e] = "ren_sleep"
    /\ Clock(e) >= wake[e]
    /\ pc' = [pc EXCEPT ![e] = "ren_get"]
    /\ wake' = [wake EXCEPT ![e] = NoTime]
    /\ UNCHANGED <<time, skew, lease, now, entry, conflict, seen, err>>
    /\ UNCHANGED notLease

\* keep_renewed, line 67 -> try_acquire: the entry read returns.
RenewGet(e) ==
    /\ pc[e] = "ren_get"
    /\ IF IsConflict(lease, e, now[e])
       THEN Fail(e, <<"Renew", "Acquire", "Conflict">>)
       ELSE /\ pc' = [pc EXCEPT ![e] = "ren_commit"]
            /\ entry' = [entry EXCEPT ![e] = Acquired(lease, e, now[e])]
            /\ UNCHANGED <<now, wake, conflict, seen, err>>
    /\ UNCHANGED <<time, skew, lease>>
    /\ UNCHANGED notLease

\* keep_renewed, line 67 -> try_acquire, lines 127-132: the commit returns.
RenewCommit(e) ==
    /\ pc[e] = "ren_commit"
    /\ IF CommitOk(entry[e])
       THEN /\ lease' = Committed(entry[e])
            /\ pc' = [pc EXCEPT ![e] = "watch"]
            /\ entry' = [entry EXCEPT ![e] = DefaultLease]
            /\ now' = [now EXCEPT ![e] = NoTime]
            /\ UNCHANGED <<wake, conflict, seen, err>>
       ELSE /\ Fail(e, <<"Renew", "Acquire", "Commit">>)
            /\ UNCHANGED lease
    /\ UNCHANGED <<time, skew>>
    /\ UNCHANGED notLease

\* (a run that returned the output without calling release)
TaskDoneBug(e) ==
    /\ TaskRunning(e)
    /\ pc' = [pc EXCEPT ![e] = "done"]
    /\ now' = [now EXCEPT ![e] = NoTime]
    /\ entry' = [entry EXCEPT ![e] = DefaultLease]
    /\ wake' = [wake EXCEPT ![e] = NoTime]
    /\ seen' = [seen EXCEPT ![e] = NoTime]
    /\ UNCHANGED <<time, skew, lease, conflict, err>>
    /\ UNCHANGED notLease

\* run, lines 43-47: the user future completes first; select drops the renewer
\* and run calls release.
TaskDone(e) ==
    /\ TaskRunning(e)
    /\ pc' = [pc EXCEPT ![e] = "rel_get"]
    /\ now' = [now EXCEPT ![e] = NoTime]
    /\ entry' = [entry EXCEPT ![e] = DefaultLease]
    /\ wake' = [wake EXCEPT ![e] = NoTime]
    /\ seen' = [seen EXCEPT ![e] = NoTime]
    /\ UNCHANGED <<time, skew, lease, conflict, err>>
    /\ UNCHANGED notLease

\* run returns Ok(output).
Finish(e) ==
    /\ pc' = [pc EXCEPT ![e] = "done"]
    /\ entry' = [entry EXCEPT ![e] = DefaultLease]
    /\ UNCHANGED <<now, wake, conflict, seen, err>>

\* release, lines 137-152: the entry read returns.
ReleaseGet(e) ==
    /\ pc[e] = "rel_get"
    /\ LET s == State(lease, e)
       IN  CASE s.kind = "Unheld" -> Finish(e)
             [] s.kind = "HeldByOther" ->
                    Fail(e, <<"Release", "AlreadyStolen", s.holder>>)
             [] s.kind = "HeldBySelf" ->
                    /\ pc' = [pc EXCEPT ![e] = "rel_commit"]
                    /\ entry' = [entry EXCEPT ![e] = Released(lease)]
                    /\ UNCHANGED <<now, wake, conflict, seen, err>>
    /\ UNCHANGED <<time, skew, lease>>
    /\ UNCHANGED notLease

\* release, line 153: the commit returns.
ReleaseCommit(e) ==
    /\ pc[e] = "rel_commit"
    /\ IF CommitOk(entry[e])
       THEN /\ lease' = Committed(entry[e])
            /\ Finish(e)
       ELSE /\ Fail(e, <<"Release", "Commit">>)
            /\ UNCHANGED lease
    /\ UNCHANGED <<time, skew>>
    /\ UNCHANGED notLease

\* The caller drops the run future: nothing of it runs any more (Elector has no
\* Drop impl, and run has no guard that releases).
Drop(e) ==
    /\ pc[e] \in InRun
    /\ pc' = [pc EXCEPT ![e] = "dropped"]
    /\ now' = [now EXCEPT ![e] = NoTime]
    /\ entry' = [entry EXCEPT ![e] = DefaultLease]
    /\ wake' = [wake EXCEPT ![e] = NoTime]
    /\ conflict' = [conflict EXCEPT ![e] = NoTime]
    /\ seen' = [seen EXCEPT ![e] = NoTime]
    /\ UNCHANGED <<time, skew, lease, err>>
    /\ UNCHANGED notLease

\* Real time passes.
Tick ==
    /\ time < MaxTime
    /\ time' = time + 1
    /\ UNCHANGED <<skew, lease, pc, now, entry, wake, conflict, seen, err>>
    /\ UNCHANGED notLease

\* The steps the elector's own code takes once it is scheduled (everything but
\* the caller's Start and Drop and the user future's completion).
ElectorStep(e) ==
    \/ AcquireNow(e)
    \/ AcquireGet(e)
    \/ AcquireWake(e)
    \/ AcquireCommit(e)
    \/ RenewEvent(e)
    \/ RenewWake(e)
    \/ RenewGet(e)
    \/ RenewCommit(e)
    \/ ReleaseGet(e)
    \/ ReleaseCommit(e)

LeaseNext ==
    \/ \E e \in Electors : Start(e)
    \/ \E e \in Electors : ElectorStep(e)
    \/ \E e \in Electors : TaskDone(e)
    \/ \E e \in Electors : Drop(e)
    \/ Tick

StoreIdle ==
    /\ store = <<>>
    /\ draft = <<>>
    /\ wpc = "idle"
    /\ wev = <<>>
    /\ todo = <<>>
    /\ applied = <<>>
    /\ snap = <<>>

\* Electors whose steps are interleaved freely with the passing of time: an
\* API call or a wake-up may take arbitrarily long.
ElectorsInit == LeaseInit /\ StoreIdle /\ LaterIdle

LeaseSpec == ElectorsInit /\ [][LeaseNext]_vars

\* A step of e's own code is ready to run: it is not waiting for a deadline,
\* for a watch event, for the caller or for the user future.
Ready(e) ==
    \/ pc[e] \in {"acq_now", "acq_get", "acq_commit", "ren_get", "ren_commit",
                  "rel_get", "rel_commit"}
    \/ pc[e] \in {"acq_sleep", "ren_sleep"} /\ Clock(e) >= wake[e]
    \/ pc[e] = "watch" /\ seen[e] # lease.rv

\* Real time passes only when no elector has a step ready: API calls, watch
\* deliveries and wake-ups take no time.
PromptTick ==
    /\ \A e \in Electors : ~Ready(e)
    /\ Tick

PromptNext ==
    \/ \E e \in Electors : Start(e)
    \/ \E e \in Electors : ElectorStep(e)
    \/ \E e \in Electors : TaskDone(e)
    \/ \E e \in Electors : Drop(e)
    \/ PromptTick

\* Prompt electors on a runtime that runs every ready task, with time passing.
LeasePromptSpec ==
    /\ ElectorsInit
    /\ [][PromptNext]_vars
    /\ WF_vars(PromptTick)
    /\ \A e \in Electors : WF_vars(ElectorStep(e))

\* The identity of a client that is none of the electors.
Foreigner == "c"

\* Leases that client wrote: held by it, with or without renew_time and
\* lease_duration_seconds (both are optional fields of LeaseSpec).
ForeignLeases ==
    {[DefaultLease EXCEPT !.exists = TRUE, !.holder = Foreigner, !.acquire_time = 0,
                          !.renew_time = r, !.duration = d, !.transitions = 1, !.rv = 1] :
        r \in {NoTime, 0}, d \in {NoTime, LeaseDuration}}

\* The electors are constructed while that client holds the lease.
ForeignInit ==
    /\ time = 0
    /\ \E s \in Skews : skew = [e \in Electors |-> IF e = "b" THEN s ELSE 0]
    /\ lease \in ForeignLeases
    /\ pc = [e \in Electors |-> "idle"]
    /\ now = [e \in Electors |-> NoTime]
    /\ entry = [e \in Electors |-> DefaultLease]
    /\ wake = [e \in Electors |-> NoTime]
    /\ conflict = [e \in Electors |-> NoTime]
    /\ seen = [e \in Electors |-> NoTime]
    /\ err = [e \in Electors |-> <<>>]
    /\ StoreIdle /\ LaterIdle

\* Prompt electors that find the lease held by the foreign client.
LeaseForeignSpec == ForeignInit /\ [][PromptNext]_vars

(***************************************************************************)
(* Claims about the lease elector                                          *)
(***************************************************************************)

\* e's latest look at the lease said HeldBySelf and its user future runs: its
\* own commit just succeeded, or the watch showed it as holder and it sleeps
\* until renew_at.
ConsidersHeld(e) == pc[e] \in {"watch", "ren_sleep"}

\* C1: two electors with distinct identities never both run their user task
\* while both consider the lease HeldBySelf.
C1_AtMostOneLeader ==
    \A a, b \in Electors : a # b => ~(ConsidersHeld(a) /\ ConsidersHeld(b))

\* C2: an optimistic-concurrency conflict on a commit never makes acquire, the
\* renew loop or run fail.
C2_ConflictNeverFatal ==
    \A e \in Electors :
        err[e] \notin {<<"Acquire", "Commit">>, <<"Renew", "Acquire", "Commit">>,
                       <<"Release", "Commit">>}

\* C3: try_acquire on a lease held by another identity with expires_at > now
\* returns Conflict without touching the lease; acquire then sleeps, retries no
\* earlier than that expires_at, and leaves its loop only with a successful
\* commit or a non-Conflict error.
C3_ConflictSleepsThenRetries ==
    [][\A e \in Electors :
        /\ ( /\ pc[e] = "acq_get" /\ pc'[e] \notin {"acq_get", "dropped"}
             /\ lease.holder \notin {NoHolder, e}
             /\ HasExpiry(lease)
             /\ lease.renew_time + lease.duration > now[e] )
           => /\ pc'[e] = "acq_sleep"
              /\ lease' = lease
              /\ conflict'[e] = lease.renew_time + lease.duration
              /\ wake'[e] >= conflict'[e]
        /\ (pc[e] = "acq_sleep" /\ pc'[e] # "acq_sleep")
           => /\ pc'[e] \in {"acq_now", "dropped"}
              /\ pc'[e] = "acq_now" => Clock(e) >= conflict[e]
        /\ (pc[e] \in AcquirePcs /\ pc'[e] \notin AcquirePcs \cup {"dropped"})
           => \/ pc'[e] = "watch" /\ lease'.holder = e /\ lease'.rv = lease.rv + 1
              \/ pc'[e] = "failed" /\ err'[e] = <<"Acquire", "Commit">>
      ]_vars

\* C3 witness: an elector that got Conflict has slept up to expires_at and is
\* about to retry.
C3_Witness ==
    \E e \in Electors :
        /\ pc[e] = "acq_sleep" /\ conflict[e] > now[e]
        /\ Clock(e) >= wake[e]

\* a stopped renewing without releasing; b, turned away by a Conflict while a
\* held the lease, is still in its acquire loop.
Orphaned(a, b) ==
    /\ a # b
    /\ pc[a] = "dropped"
    /\ lease.holder = a
    /\ pc[b] \in AcquirePcs
    /\ conflict[b] # NoTime

\* C4: when the holder stops renewing without releasing, an elector blocked in
\* acquire obtains the lease (unless it is dropped itself), no later by its own
\* clock than the holder's last renew_time plus the lease duration, and
\* lease_transitions is then at least one higher.
C4_Handoff ==
    /\ \A a, b \in Electors :
          (Orphaned(a, b) /\ lease.renew_time + lease.duration <= MaxTime)
              ~> (lease.holder = b \/ pc[b] = "dropped")
    /\ [][\A a, b \in Electors :
            /\ (Orphaned(a, b) /\ time' > time)
               => time' + skew[b] <= lease.renew_time + lease.duration
            /\ (Orphaned(a, b) /\ lease'.holder = b)
               => lease'.transitions >= lease.transitions + 1
         ]_vars

\* C4 witness: b, blocked by a Conflict while a held the lease, has woken after
\* a was dropped and its takeover is on its way to the server.
C4_Witness ==
    \E a, b \in Electors :
        /\ Orphaned(a, b)
        /\ pc[b] = "acq_commit"
        /\ entry[b].holder = b /\ entry[b].rv = lease.rv

\* C5: the holder changes only by a commit of the new holder that the server
\* accepted, and the server accepts a commit only when it is based on the
\* current version, which it then replaces: of the commits based on one
\* version at most one succeeds.
C5_OneWinner ==
    [][ /\ lease' # lease
           => \E e \in Electors :
                /\ pc[e] \in {"acq_commit", "ren_commit", "rel_commit"}
                /\ entry[e].rv = lease.rv /\ entry[e].exists = lease.exists
                /\ lease' = [entry[e] EXCEPT !.exists = TRUE, !.rv = lease.rv + 1]
                /\ pc'[e] \in {"watch", "done"}
        /\ \A e \in Electors :
             (pc[e] \in {"acq_commit", "ren_commit", "rel_commit"}
              /\ pc'[e] \in {"watch", "done"})
             => lease'.rv = lease.rv + 1 /\ entry[e].rv = lease.rv
      ]_vars

\* C5 witness: both electors read the unheld lease at the same version; one
\* became holder and the other's commit was refused.
C5_Witness ==
    \E a, b \in Electors :
        /\ a # b
        /\ lease.holder = a /\ lease.rv = 1 /\ lease.transitions = 1
        /\ err[b] = <<"Acquire", "Commit">>

\* C6: release writes only when the lease is HeldBySelf, then clearing holder,
\* times and duration and adding one to lease_transitions; HeldByOther gives
\* AlreadyStolen naming the holder and Unheld gives Ok, both without a write.
C6_Release ==
    [][\A e \in Electors :
        /\ (pc[e] = "rel_get" /\ pc'[e] \notin {"rel_get", "dropped"})
           => /\ lease' = lease
              /\ lease.holder = NoHolder => pc'[e] = "done" /\ err'[e] = <<>>
              /\ lease.holder \notin {NoHolder, e}
                 => /\ pc'[e] = "failed"
                    /\ err'[e] = <<"Release", "AlreadyStolen", lease.holder>>
              /\ lease.holder = e => pc'[e] = "rel_commit"
        /\ (pc[e] = "rel_commit" /\ pc'[e] \notin {"rel_commit", "dropped"})
           => \/ /\ pc'[e] = "done"
                 /\ lease.holder = e
                 /\ lease'.holder = NoHolder
                 /\ lease'.acquire_time = NoTime
                 /\ lease'.renew_time = NoTime
                 /\ lease'.duration = NoTime
                 /\ lease'.transitions = lease.transitions + 1
              \/ /\ pc'[e] = "failed"
                 /\ lease' = lease
      ]_vars

\* C6 witness: a holder has released: the lease is cleared, after one
\* acquisition and one release.
C6_Witness ==
    \E e \in Electors :
        /\ pc[e] = "done"
        /\ lease.holder = NoHolder /\ lease.transitions = 2 /\ lease.rv = 2

\* C7: the user task starts only when acquire succeeded; a renewer failure ends
\* run with Renew and never with the output; when the task finishes release is
\* attempted once and run returns the output only if release succeeded, else
\* it fails with Release.
C7_RunPhases ==
    [][\A e \in Electors :
        /\ (~TaskRunning(e) /\ TaskRunning(e)')
           => pc[e] = "acq_commit" /\ lease'.holder = e /\ lease'.rv = lease.rv + 1
        /\ (pc[e] \in RenewPcs /\ pc'[e] = "failed") => Head(err'[e]) = "Renew"
        /\ (pc[e] \in AcquirePcs /\ pc'[e] = "failed") => Head(err'[e]) = "Acquire"
        /\ (pc[e] \in ReleasePcs /\ pc'[e] = "failed") => Head(err'[e]) = "Release"
        /\ pc[e] = "failed" => pc'[e] = "failed" /\ err'[e] = err[e]
        /\ (pc'[e] = "rel_get" /\ pc[e] # "rel_get") => TaskRunning(e)
        /\ pc[e] \in ReleasePcs
           => /\ pc'[e] \in ReleasePcs \cup {"done", "failed", "dropped"}
              /\ pc[e] = "rel_commit" => pc'[e] # "rel_get"
        /\ (pc'[e] = "done" /\ pc[e] # "done")
           => \/ pc[e] = "rel_get" /\ lease.holder = NoHolder
              \/ /\ pc[e] = "rel_commit"
                 /\ lease'.holder = NoHolder /\ lease'.rv = lease.rv + 1
      ]_vars

\* C7 witness: one run has failed with Renew after its renewer met a Conflict,
\* the other has returned its task's output after a release.
C7_Witness ==
    \E a, b \in Electors :
        /\ pc[a] = "failed" /\ err[a] = <<"Renew", "Acquire", "Conflict">>
        /\ pc[b] = "done"

\* C8: a run that is dropped while its elector holds the lease releases it.
C8_DropReleases ==
    \A e \in Electors : pc[e] = "dropped" => lease.holder # e

\* C32: every commit of try_acquire that succeeds, on the first acquisition
\* and on each renewal, leaves the lease with holder_identity = self,
\* lease_duration_seconds = the configured duration and renew_time = the time
\* at which that step is performed, not an earlier instant.
C32_RenewTimeIsNow ==
    [][\A e \in Electors :
        (pc[e] \in {"acq_commit", "ren_commit"} /\ pc'[e] = "watch")
           => /\ lease'.holder = e
              /\ lease'.duration = LeaseDuration
              /\ lease'.renew_time = Clock(e)
      ]_vars

\* e's commit of try_acquire (of acquire or of the renewer) succeeds in this
\* step.
AcquireCommits(e) == pc[e] \in {"acq_commit", "ren_commit"} /\ pc'[e] = "watch"

\* C33: lease_transitions never decreases: it grows by exactly one on each
\* successful acquisition by an elector that was not already the holder and
\* on each release by the holder, and is left alone by a renewal by the
\* current holder and by every failed or conflicting attempt.
C33_Transitions ==
    [][/\ lease'.transitions >= lease.transitions
       /\ lease'.transitions # lease.transitions
          => \E e \in Electors :
                AcquireCommits(e) \/ (pc[e] = "rel_commit" /\ pc'[e] = "done")
       /\ \A e \in Electors :
            /\ AcquireCommits(e)
               => lease'.transitions
                    = lease.transitions + (IF lease.holder = e THEN 0 ELSE 1)
            /\ (pc[e] = "rel_commit" /\ pc'[e] = "done")
               => lease'.transitions = lease.transitions + 1
            /\ (pc[e] \in {"acq_commit", "ren_commit", "rel_commit", "ren_get", "rel_get"}
                /\ pc'[e] = "failed")
               => lease' = lease
            /\ (pc[e] = "acq_get" /\ pc'[e] = "acq_sleep") => lease' = lease
      ]_vars

\* C33 witness: one acquisition, one renewal and one release have been
\* committed: three versions, two transitions.
C33_Witness ==
    /\ lease.holder = NoHolder
    /\ lease.rv = 3
    /\ lease.transitions = 2
    /\ \E e \in Electors : pc[e] = "done"

\* C35: acquire_time is the start of the current holder's tenure: try_acquire
\* sets it to now only when the holder changes; a renewal by the current
\* holder leaves acquire_time and holder_identity as they are and modifies
\* only renew_time and lease_duration_seconds.
C35_AcquireTime ==
    [][\A e \in Electors :
        AcquireCommits(e)
           => IF lease.holder = e
              THEN lease' = [lease EXCEPT !.renew_time = now[e],
                                          !.duration = LeaseDuration,
                                          !.rv = lease.rv + 1]
              ELSE /\ lease'.holder = e
                   /\ lease'.acquire_time = now[e]
      ]_vars

\* C35 witness: the holder has renewed after time passed: renew_time has moved
\* on and acquire_time is still the time of the acquisition.
C35_Witness ==
    \E e \in Electors :
        /\ lease.holder = e
        /\ pc[e] \in RenewPcs
        /\ lease.acquire_time = 0
        /\ lease.renew_time > 0

\* C36: a lease held by another identity whose renew_time or
\* lease_duration_seconds is missing is treated as expired: try_acquire takes
\* it over at once, never returning Conflict and never waiting.
C36_MissingTimesIsExpired ==
    [][\A e \in Electors :
        /\ ( /\ pc[e] \in {"acq_get", "ren_get"}
             /\ pc'[e] \notin {pc[e], "dropped", "rel_get"}
             /\ lease.holder \notin {NoHolder, e}
             /\ (lease.renew_time = NoTime \/ lease.duration = NoTime) )
           => /\ pc'[e] = (IF pc[e] = "acq_get" THEN "acq_commit" ELSE "ren_commit")
              /\ wake'[e] = NoTime
              /\ entry'[e] = [lease EXCEPT !.holder = e, !.acquire_time = now[e],
                                           !.renew_time = now[e],
                                           !.duration = LeaseDuration,
                                           !.transitions = lease.transitions + 1]
        /\ ( /\ pc[e] = "acq_commit" /\ pc'[e] = "watch"
             /\ lease.holder \notin {NoHolder, e}
             /\ (lease.renew_time = NoTime \/ lease.duration = NoTime) )
           => lease'.holder = e /\ lease'.renew_time = Clock(e)
      ]_vars

\* C36 witness: at time 0 an elector has taken the lease the foreign client
\* held without a complete expiry.
C36_Witness ==
    /\ time = 0
    /\ lease.holder \in Electors
    /\ lease.transitions = 2
    /\ lease.rv = 2

\* C38: while the holder's run is in progress and every read, watch
\* notification and commit is prompt, the lease never appears expired to an
\* elector: at every instant now < renew_time + lease_duration_seconds as
\* stored on the server, and no other elector's try_acquire succeeds.
C38_NeverAppearsExpired ==
    /\ [](\A a \in Electors :
            (lease.holder = a /\ pc[a] \in RenewPcs)
               => \A e \in Electors : Clock(e) < lease.renew_time + lease.duration)
    /\ [][\A a \in Electors :
            (lease.holder = a /\ pc[a] \in RenewPcs /\ pc'[a] \in RenewPcs)
               => lease'.holder = a
         ]_vars

\* C38 witness: past the expiry of its first commit the holder still holds
\* the lease it keeps renewing, and the other elector, turned away by a
\* Conflict, sleeps.
C38_Witness ==
    \E a, b \in Electors :
        /\ a # b
        /\ lease.holder = a /\ pc[a] \in RenewPcs
        /\ time > lease.acquire_time + LeaseDuration
        /\ lease.rv >= 3
        /\ pc[b] = "acq_sleep" /\ conflict[b] # NoTime

(***************************************************************************)
(* Part 2.  Reflector store: one Writer, Readers sharing its state         *)
(***************************************************************************)

\* Object keys ((namespace, name)) and object contents.
Keys == {"cm-a", "cm-b"}
Vals == {1, 2}
Objects == [key : Keys, val : Vals]

\* Events the writer is fed before the model stops.
MaxEvents == 2

EmptyMap == <<>>

\* Lists of a Restarted: a server list, objects with distinct keys in name order.
Lists ==
    {<<>>}
    \cup {<<o>> : o \in Objects}
    \cup {<<o1, o2>> : o1 \in {x \in Objects : x.key = "cm-a"},
                       o2 \in {y \in Objects : y.key = "cm-b"}}

\* watcher::Event; a Deleted carries the object last seen.
Events ==
    [type : {"Applied"}, objs : {<<o>> : o \in Objects}]
    \cup [type : {"Deleted"}, objs : {<<o>> : o \in {x \in Objects : x.val = 1}}]
    \cup [type : {"Restarted"}, objs : Lists]

Insert(m, o) == [k \in DOMAIN m \cup {o.key} |-> IF k = o.key THEN o.val ELSE m[k]]

Remove(m, key) == [k \in DOMAIN m \ {key} |-> m[k]]

\* Store::state(): the contents of the shared cell.
ReaderState == store

\* Store::get(key): Some(object) or None (0).
ReaderGet(key) == IF key \in DOMAIN store THEN store[key] ELSE 0

\* What a reader can see while the writer works on its copy: the cell is not
\* touched until the swap.
CellWhileMutatingBug(d) == d

CellWhileMutating(d) == store

\* The working copy a Restarted starts from: nothing of the old map is kept.
RestartBaseBug(d) == d

RestartBase(d) == EmptyMap

StoreInit == StoreIdle

\* Writer::apply_watcher_event, first step: clone the current mapping.
WriterClone(ev) ==
    /\ wpc = "idle"
    /\ Len(applied) < MaxEvents
    /\ wev' = ev
    /\ draft' = store
    /\ wpc' = "cloned"
    /\ UNCHANGED <<store, todo, applied, snap>>
    /\ UNCHANGED notStore

\* Writer::apply_watcher_event, the mutation of the copy: one insert or remove
\* at a time; a Restarted empties the copy and then inserts its list.
WriterMutate ==
    /\ wpc \in {"cloned", "filling"}
    /\ IF wev.type = "Applied"
       THEN /\ draft' = Insert(draft, wev.objs[1])
            /\ wpc' = "ready"
       ELSE IF wev.type = "Deleted"
       THEN /\ draft' = Remove(draft, wev.objs[1].key)
            /\ wpc' = "ready"
       ELSE IF wpc = "cloned"
       THEN /\ draft' = RestartBase(draft)
            /\ wpc' = IF wev.objs = <<>> THEN "ready" ELSE "filling"
       ELSE /\ todo # <<>>
            /\ draft' = Insert(draft, Head(todo))
            /\ wpc' = IF Tail(todo) = <<>> THEN "ready" ELSE "filling"
    /\ todo' = IF wev.type # "Restarted" THEN <<>>
               ELSE IF wpc = "cloned" THEN wev.objs ELSE Tail(todo)
    /\ store' = CellWhileMutating(draft')
    /\ UNCHANGED <<wev, applied, snap>>
    /\ UNCHANGED notStore

\* Writer::apply_watcher_event, last step: swap the copy in atomically.
WriterSwap ==
    /\ wpc = "ready"
    /\ store' = draft
    /\ applied' = Append(applied, wev)
    /\ draft' = EmptyMap
    /\ wev' = <<>>
    /\ wpc' = "idle"
    /\ UNCHANGED <<todo, snap>>
    /\ UNCHANGED notStore

\* spawn_periodic_reader: reader.state().
ReadState ==
    /\ snap' = [op |-> "state", key |-> "", val |-> 0, map |-> ReaderState]
    /\ UNCHANGED <<store, draft, wpc, wev, todo, applied>>
    /\ UNCHANGED notStore

\* reader.get(key).
ReadGet(key) ==
    /\ snap' = [op |-> "get", key |-> key, val |-> ReaderGet(key), map |-> EmptyMap]
    /\ UNCHANGED <<store, draft, wpc, wev, todo, applied>>
    /\ UNCHANGED notStore

StoreNext ==
    \/ \E ev \in Events : WriterClone(ev)
    \/ WriterMutate
    \/ WriterSwap
    \/ ReadState
    \/ \E key \in Keys : ReadGet(key)

ReflectorInit == LeaseIdle /\ StoreInit /\ LaterIdle

StoreSpec == ReflectorInit /\ [][StoreNext]_vars

(***************************************************************************)
(* Claims about the store                                                  *)
(***************************************************************************)

\* The map of a list: each object under its key.
RECURSIVE MapOfList(_)
MapOfList(l) ==
    IF l = <<>> THEN EmptyMap
    ELSE LET o == l[Len(l)]
             m == MapOfList(SubSeq(l, 1, Len(l) - 1))
         IN  [k \in DOMAIN m \cup {o.key} |-> IF k = o.key THEN o.val ELSE m[k]]

\* Replaying events on an empty map: Applied(o) sets key(o) to o, Deleted(o)
\* removes key(o), Restarted(L) replaces the whole map by L.
RECURSIVE Replay(_)
Replay(evs) ==
    IF evs = <<>> THEN EmptyMap
    ELSE LET ev == evs[Len(evs)]
             m == Replay(SubSeq(evs, 1, Len(evs) - 1))
         IN  CASE ev.type = "Applied" ->
                    [k \in DOMAIN m \cup {ev.objs[1].key} |->
                        IF k = ev.objs[1].key THEN ev.objs[1].val ELSE m[k]]
               [] ev.type = "Deleted" ->
                    [k \in DOMAIN m \ {ev.objs[1].key} |-> m[k]]
               [] ev.type = "Restarted" -> MapOfList(ev.objs)

\* The states a reader may see: the replay of a prefix of the applied events,
\* or of those and the event the writer is applying.
Prefixes ==
    {SubSeq(applied, 1, n) : n \in 0..Len(applied)}
    \cup (IF wpc = "idle" THEN {} ELSE {Append(applied, wev)})

\* C9: after any sequence of events applied to the Writer, the Reader's
\* state() equals the replay of that sequence on an empty map, and right after
\* a Restarted(L) its key set is exactly the keys of L.
C9_StateIsReplay ==
    wpc = "idle" =>
        /\ ReaderState = Replay(applied)
        /\ (applied # <<>> /\ applied[Len(applied)].type = "Restarted")
           => DOMAIN ReaderState =
                {applied[Len(applied)].objs[i].key :
                    i \in 1..Len(applied[Len(applied)].objs)}

\* C9 witness: a Restarted on a non-empty store dropped the key it held and
\* brought another.
C9_Witness ==
    /\ wpc = "idle"
    /\ Len(applied) = 2
    /\ applied[1].type = "Applied" /\ applied[1].objs[1].key = "cm-a"
    /\ applied[2].type = "Restarted" /\ Len(applied[2].objs) = 1
    /\ applied[2].objs[1].key = "cm-b"
    /\ snap # <<>> /\ snap.op = "state" /\ snap.map = store
    /\ DOMAIN store = {"cm-b"}

\* C10: whatever a reader gets from state() or get(), at any moment of the
\* writer's work, is the whole store before or after some event: never a
\* Restarted in part.
C10_NoTornRead ==
    /\ snap # <<>> /\ snap.op = "state"
       => \E h \in Prefixes : snap.map = Replay(h)
    /\ snap # <<>> /\ snap.op = "get"
       => \E h \in Prefixes :
            snap.val = (IF snap.key \in DOMAIN Replay(h) THEN Replay(h)[snap.key] ELSE 0)
    /\ \E h \in Prefixes : store = Replay(h)

\* C10 witness: the reader took state() while the writer was half way through
\* a Restarted that swaps one key for the other, and saw the old map whole.
C10_Witness ==
    /\ wpc = "filling"
    /\ wev.type = "Restarted" /\ Len(wev.objs) = 2
    /\ DOMAIN draft = {"cm-a"}
    /\ snap # <<>> /\ snap.op = "state"
    /\ DOMAIN snap.map = {"cm-b"}
    /\ DOMAIN store = {"cm-b"}

(***************************************************************************)
(* Part 3.  Reflector: the watcher stream drives the Writer and is passed  *)
(* on to the consumer                                                      *)
(***************************************************************************)

\* A watcher error: an Err item of the stream, which carries no event.
WatchError == [type |-> "Error", objs |-> <<>>]

\* Items of the watcher stream: Ok(event) or Err(error).
Items == Events \cup {WatchError}

\* Option::None of the item held by the reflector.
NoItem == <<>>

RECURSIVE InsertAll(_, _)
InsertAll(m, l) == IF l = <<>> THEN m ELSE InsertAll(Insert(m, Head(l)), Tail(l))

\* Writer::apply_watcher_event as a whole: the map swapped in for the old one.
ApplyWatcherEvent(m, ev) ==
    CASE ev.type = "Applied" -> Insert(m, ev.objs[1])
      [] ev.type = "Deleted" -> Remove(m, ev.objs[1].key)
      [] ev.type = "Restarted" -> InsertAll(RestartBase(m), ev.objs)

\* A reflector that hands the item on without touching the store.
InspectOkBug(m, item) == m

\* What the reflector does to the store with an item before handing it on: an
\* event is applied, an error is not.
InspectOk(m, item) ==
    IF item.type = "Error" THEN m ELSE ApplyWatcherEvent(m, item)

\* The reflector takes the next item of the watcher stream and drives the
\* Writer with it.
ReflectorPoll(item) ==
    /\ pending = NoItem
    /\ Len(received) < MaxEvents
    /\ received' = Append(received, item)
    /\ store' = InspectOk(store, item)
    /\ applied' = IF item.type = "Error" THEN applied ELSE Append(applied, item)
    /\ pending' = item
    /\ UNCHANGED <<observed, readAt, snap>>
    /\ UNCHANGED notRefl

\* The reflector yields the item it holds to its consumer.
ReflectorYield ==
    /\ pending # NoItem
    /\ observed' = Append(observed, pending)
    /\ pending' = NoItem
    /\ UNCHANGED <<received, readAt, store, applied, snap>>
    /\ UNCHANGED notRefl

\* The consumer of the reflector stream reads the store, reader.state(), after
\* the items it has observed so far.
ObserverRead ==
    /\ snap' = [op |-> "state", key |-> "", val |-> 0, map |-> ReaderState]
    /\ readAt' = Len(observed)
    /\ UNCHANGED <<received, pending, observed, store, applied>>
    /\ UNCHANGED notRefl

ReflNext ==
    \/ \E item \in Items : ReflectorPoll(item)
    \/ ReflectorYield
    \/ ObserverRead

PipelineInit == LeaseIdle /\ StoreIdle /\ LaterIdle

ReflSpec == PipelineInit /\ [][ReflNext]_vars

(***************************************************************************)
(* Claims about the reflector                                              *)
(***************************************************************************)

\* The events among the first n items of a sequence of stream items.
RECURSIVE OkOf(_, _)
OkOf(items, n) ==
    IF n = 0 THEN <<>>
    ELSE IF items[n].type = "Error" THEN OkOf(items, n - 1)
    ELSE Append(OkOf(items, n - 1), items[n])

\* C11: the reflector yields the items it received unchanged and in order,
\* every event it has yielded has already been applied to the store, and a
\* read of the store made after observing an event returns a state that
\* contains that event's effect: the replay of at least the events observed
\* before the read, never of fewer.
C11_ReadAfterObserve ==
    /\ Len(observed) <= Len(received)
    /\ observed = SubSeq(received, 1, Len(observed))
    /\ applied = OkOf(received, Len(received))
    /\ store = Replay(applied)
    /\ snap # <<>> =>
         \E n \in Len(OkOf(observed, readAt))..Len(applied) :
            snap.map = Replay(SubSeq(applied, 1, n))

\* C11 witness: the consumer observed Applied(cm-a) and then a Restarted that
\* holds cm-b only, read the store, and saw exactly cm-b.
C11_Witness ==
    /\ Len(observed) = 2
    /\ observed[1].type = "Applied" /\ observed[1].objs[1].key = "cm-a"
    /\ observed[2].type = "Restarted" /\ Len(observed[2].objs) = 1
    /\ observed[2].objs[1].key = "cm-b"
    /\ readAt = 2
    /\ snap # <<>> /\ DOMAIN snap.map = {"cm-b"}

(***************************************************************************)
(* Part 4.  Watcher: the restartable list-then-watch state machine, and    *)
(* the List and Watch requests it sends (kube/src/client/verb.rs)          *)
(***************************************************************************)

\* Option::None of a string field.
NoneStr == "<none>"

\* What the server answers before the model stops.
MaxResponses == 4

\* Page size of the watcher's list calls.
PageSize == 500

\* Kind::url_path(dyn_type, namespace) of the watched resource.
BasePath == "/api/v1/nodes"

\* The ListParams of the watcher: a label selector, no field selector, a watch
\* timeout in seconds.
Lp == [label_selector |-> "kubernetes.io/arch=amd64", field_selector |-> NoneStr,
       timeout |-> 10]

\* Query::from_list_params.
Query(lp) == [label_selector |-> lp.label_selector, field_selector |-> lp.field_selector]

\* Query::populate_qp: the selectors that are set, labels first.
PopulateQp(query) ==
    (IF query.label_selector # NoneStr
     THEN <<<<"labelSelector", query.label_selector>>>> ELSE <<>>)
    \o (IF query.field_selector # NoneStr
        THEN <<<<"fieldSelector", query.field_selector>>>> ELSE <<>>)

\* A List request that never names the page it continues from.
ListRequestBug(query, limit, continue_token) ==
    [method |-> "GET", path |-> BasePath,
     qp |-> PopulateQp(query) \o <<<<"limit", ToString(limit)>>>>]

\* List::to_http_request; limit 0 stands for None.
ListRequest(query, limit, continue_token) ==
    [method |-> "GET", path |-> BasePath,
     qp |-> PopulateQp(query)
            \o (IF limit # 0 THEN <<<<"limit", ToString(limit)>>>> ELSE <<>>)
            \o (IF continue_token # NoneStr
                THEN <<<<"continue", continue_token>>>> ELSE <<>>)]

\* A Watch request that always starts from the beginning.
WatchRequestBug(query, version, timeout) ==
    [method |-> "GET", path |-> BasePath,
     qp |-> <<<<"watch", "1">>, <<"resourceVersion", "0">>,
              <<"allowWatchBookmarks", "1">>>>]

\* Watch::to_http_request; timeout 0 stands for None. The selectors of the
\* query are not written into the URL.
WatchRequest(query, version, timeout) ==
    [method |-> "GET", path |-> BasePath,
     qp |-> <<<<"watch", "1">>, <<"resourceVersion", version>>,
              <<"allowWatchBookmarks", "1">>>>
            \o (IF timeout # 0 THEN <<<<"timeoutSeconds", ToString(timeout)>>>> ELSE <<>>)]

\* The value of a query pair of a request, NoneStr when the key is absent.
QueryValue(req, name) ==
    IF \E i \in 1..Len(req.qp) : req.qp[i][1] = name
    THEN req.qp[CHOOSE i \in 1..Len(req.qp) : req.qp[i][1] = name][2]
    ELSE NoneStr

\* Objects and resourceVersions the server of the watcher hands out.
WObjs == {o \in Objects : o.val = 1}
Rvs == {"1", "2"}
Tokens == {"t1"}

\* An answer of the server: a list page, a failed call, a line of the watch
\* stream, or the end of the watch stream.
Answer(type, items, rv, continue, code) ==
    [type |-> type, items |-> items, rv |-> rv, continue |-> continue, code |-> code]

\* Answers to a List call: an ObjectList page with its metadata, or a failure.
ListAnswers ==
    {Answer("PAGE", items, rv, c, 200) :
        items \in {<<>>} \cup {<<o>> : o \in WObjs}, rv \in Rvs,
        c \in {NoneStr} \cup Tokens}
    \cup {Answer("FAIL", <<>>, NoneStr, NoneStr, 500)}

\* WatchEvent lines of a watch stream.
WatchEvents ==
    {Answer(t, <<o>>, NoneStr, NoneStr, 200) :
        t \in {"ADDED", "MODIFIED", "DELETED"}, o \in WObjs}
    \cup {Answer("BOOKMARK", <<>>, rv, NoneStr, 200) : rv \in Rvs}
    \cup {Answer("ERROR", <<>>, NoneStr, NoneStr, code) : code \in {410, 500}}

\* The watch stream closed cleanly.
Closed == Answer("CLOSED", <<>>, NoneStr, NoneStr, 200)

\* State Empty: no resourceVersion, no page gathered.
EmptyState ==
    [tag |-> "Empty", rv |-> NoneStr, continue_token |-> NoneStr,
     objects |-> <<>>, open |-> FALSE]

\* State Watching{rv}, its watch call not yet made.
Watching(rv) ==
    [tag |-> "Watching", rv |-> rv, continue_token |-> NoneStr,
     objects |-> <<>>, open |-> FALSE]

\* A watcher that stays on its watch after an ERROR event.
AfterErrorBug(st, code) == st

\* The state after an ERROR event: Gone drops the resourceVersion and goes to
\* Empty at once, any other error goes to Empty after the backoff.
AfterError(st, code) == EmptyState

\* State Empty: one List call, for the first page or the page named by the
\* continue token of the last one, and what follows from its answer.
WatcherList(ans) ==
    /\ wst.tag = "Empty"
    /\ Len(wlog) < MaxResponses
    /\ wreq' = ListRequest(Query(Lp), PageSize, wst.continue_token)
    /\ wlog' = Append(wlog, ans)
    /\ IF ans.type = "FAIL"
       THEN /\ wst' = EmptyState
            /\ UNCHANGED <<emitted, fresh>>
       ELSE IF ans.continue # NoneStr
       THEN /\ wst' = [wst EXCEPT !.continue_token = ans.continue,
                                  !.objects = @ \o ans.items]
            /\ UNCHANGED <<emitted, fresh>>
       ELSE LET ev == [type |-> "Restarted", objs |-> wst.objects \o ans.items]
            IN  /\ wst' = Watching(ans.rv)
                /\ emitted' = Append(emitted, ev)
                /\ fresh' = <<ev>>
    /\ UNCHANGED notWatcher

\* State Watching{rv}: the Watch call from the resourceVersion held.
WatcherOpen ==
    /\ wst.tag = "Watching"
    /\ ~wst.open
    /\ wreq' = WatchRequest(Query(Lp), wst.rv, Lp.timeout)
    /\ wst' = [wst EXCEPT !.open = TRUE]
    /\ UNCHANGED <<emitted, fresh, wlog>>
    /\ UNCHANGED notWatcher

\* State Watching{rv}: one event of the watch stream.
WatcherEvent(ev) ==
    /\ wst.tag = "Watching"
    /\ wst.open
    /\ Len(wlog) < MaxResponses
    /\ wlog' = Append(wlog, ev)
    /\ CASE ev.type \in {"ADDED", "MODIFIED"} ->
              /\ emitted' = Append(emitted, [type |-> "Applied", objs |-> ev.items])
              /\ fresh' = Append(fresh, [type |-> "Applied", objs |-> ev.items])
              /\ wst' = wst
         [] ev.type = "DELETED" ->
              /\ emitted' = Append(emitted, [type |-> "Deleted", objs |-> ev.items])
              /\ fresh' = Append(fresh, [type |-> "Deleted", objs |-> ev.items])
              /\ wst' = wst
         [] ev.type = "BOOKMARK" ->
              /\ wst' = [wst EXCEPT !.rv = ev.rv]
              /\ UNCHANGED <<emitted, fresh>>
         [] ev.type = "ERROR" ->
              /\ wst' = AfterError(wst, ev.code)
              /\ emitted' = IF ev.code = 410 THEN emitted
                            ELSE Append(emitted, WatchError)
              /\ fresh' = IF wst'.tag = "Empty" THEN <<>> ELSE fresh
    /\ UNCHANGED wreq
    /\ UNCHANGED notWatcher

\* State Watching{rv}: the watch stream ended cleanly.
WatcherClosed ==
    /\ wst.tag = "Watching"
    /\ wst.open
    /\ Len(wlog) < MaxResponses
    /\ wlog' = Append(wlog, Closed)
    /\ wst' = [wst EXCEPT !.open = FALSE]
    /\ UNCHANGED <<wreq, emitted, fresh>>
    /\ UNCHANGED notWatcher

WatcherNext ==
    \/ \E ans \in ListAnswers : WatcherList(ans)
    \/ WatcherOpen
    \/ \E ev \in WatchEvents : WatcherEvent(ev)
    \/ WatcherClosed

WatcherInit == LeaseIdle /\ StoreIdle /\ LaterIdle

WatcherSpec == WatcherInit /\ [][WatcherNext]_vars

(***************************************************************************)
(* Claims about the watcher                                                *)
(***************************************************************************)

Last(s) == s[Len(s)]

IsGone(ans) == ans.type = "ERROR" /\ ans.code = 410

IsFinalPage(ans) == ans.type = "PAGE" /\ ans.continue = NoneStr

\* The items of the pages that answers 1..n of the log have gathered for the
\* list under way: the run of pages with a continue token that ends at n.
RECURSIVE PagesBefore(_, _)
PagesBefore(log, n) ==
    IF n = 0 THEN <<>>
    ELSE IF log[n].type = "PAGE" /\ log[n].continue # NoneStr
    THEN PagesBefore(log, n - 1) \o log[n].items
    ELSE <<>>

\* The list completed last among answers 1..n: all the pages of that attempt.
RECURSIVE FreshList(_, _)
FreshList(log, n) ==
    IF n = 0 THEN <<>>
    ELSE IF IsFinalPage(log[n]) THEN PagesBefore(log, n - 1) \o log[n].items
    ELSE FreshList(log, n - 1)

\* The resourceVersion the server gave last among answers 1..n: that of a
\* BOOKMARK or of the final page of a list; none once an ERROR came.
RECURSIVE LatestRv(_, _)
LatestRv(log, n) ==
    IF n = 0 THEN NoneStr
    ELSE IF log[n].type = "BOOKMARK" \/ IsFinalPage(log[n]) THEN log[n].rv
    ELSE IF log[n].type = "ERROR" THEN NoneStr
    ELSE LatestRv(log, n - 1)

\* C12: right after an ERROR event with 410 Gone the watcher is Empty and holds
\* no resourceVersion; the answer it takes next is that of a List call; and the
\* events emitted since the watcher was last Empty begin with one Restarted,
\* which carries the list fetched by that relist, every Applied or Deleted
\* coming after it; they are the last items the watcher emitted.
C12_GoneRelists ==
    /\ (wlog # <<>> /\ IsGone(Last(wlog))) => wst = EmptyState /\ fresh = <<>>
    /\ \A n \in 1..(Len(wlog) - 1) :
         IsGone(wlog[n]) => wlog[n + 1].type \in {"PAGE", "FAIL"}
    /\ fresh # <<>> =>
         /\ fresh[1] = [type |-> "Restarted", objs |-> FreshList(wlog, Len(wlog))]
         /\ \A i \in 2..Len(fresh) : fresh[i].type \in {"Applied", "Deleted"}
    /\ Len(fresh) <= Len(emitted)
    /\ fresh = SubSeq(emitted, Len(emitted) - Len(fresh) + 1, Len(emitted))

\* C12 witness: list, 410 Gone, a relist that returns cm-b, then ADDED cm-a:
\* the watcher emitted Restarted, Restarted([cm-b]), Applied(cm-a).
C12_Witness ==
    /\ Len(wlog) = 4
    /\ IsFinalPage(wlog[1]) /\ IsGone(wlog[2]) /\ IsFinalPage(wlog[3])
    /\ wlog[4].type = "ADDED" /\ wlog[4].items[1].key = "cm-a"
    /\ Len(wlog[3].items) = 1 /\ wlog[3].items[1].key = "cm-b"
    /\ Len(emitted) = 3
    /\ emitted[2] = [type |-> "Restarted", objs |-> wlog[3].items]
    /\ emitted[3] = [type |-> "Applied", objs |-> wlog[4].items]
    /\ fresh = <<emitted[2], emitted[3]>>

\* C13: a clean end of the watch stream leaves the watcher Watching with the
\* resourceVersion it held and emits nothing; a BOOKMARK replaces the
\* resourceVersion and emits nothing; and the step of a watcher that is
\* Watching with no stream open is a Watch request from the resourceVersion
\* the server gave last, with no List call and no event emitted.
C13_CleanCloseReconnects ==
    [][/\ (wlog' # wlog /\ Last(wlog') = Closed)
            => /\ wst'.tag = "Watching"
               /\ wst'.rv = wst.rv
               /\ wst'.rv = LatestRv(wlog', Len(wlog'))
               /\ emitted' = emitted
       /\ (wlog' # wlog /\ Last(wlog').type = "BOOKMARK")
            => /\ wst'.tag = "Watching"
               /\ wst'.rv = Last(wlog').rv
               /\ emitted' = emitted
       /\ (wst.tag = "Watching" /\ ~wst.open)
            => /\ wlog' = wlog
               /\ emitted' = emitted
               /\ wst'.tag = "Watching"
               /\ wreq'.method = "GET" /\ wreq'.path = BasePath
               /\ QueryValue(wreq', "watch") = "1"
               /\ QueryValue(wreq', "allowWatchBookmarks") = "1"
               /\ QueryValue(wreq', "resourceVersion") = LatestRv(wlog, Len(wlog))
      ]_vars

\* C13 witness: list at version 1, BOOKMARK 2, clean close, and the watch
\* reopened from version 2 with the one Restarted of the list emitted.
C13_Witness ==
    /\ Len(wlog) = 3
    /\ IsFinalPage(wlog[1]) /\ wlog[1].rv = "1"
    /\ wlog[2].type = "BOOKMARK" /\ wlog[2].rv = "2"
    /\ wlog[3] = Closed
    /\ wst.tag = "Watching" /\ wst.open
    /\ QueryValue(wreq, "resourceVersion") = "2"
    /\ Len(emitted) = 1 /\ emitted[1].type = "Restarted"

\* C14: every List call asks for the page after the one just received, or for
\* the first page when no page precedes it or the last call failed; a page
\* with a continue token and a failed page emit nothing, a failure leaving no
\* page gathered; the final page emits one Restarted with the items of all the
\* pages of the attempt and records that page's resourceVersion.
C14_PagedList ==
    [][(wlog' # wlog /\ Last(wlog').type \in {"PAGE", "FAIL"}) =>
         LET ans == Last(wlog')
             prev == IF wlog # <<>> /\ Last(wlog).type = "PAGE"
                     THEN Last(wlog).continue ELSE NoneStr
         IN  /\ QueryValue(wreq', "continue") = prev
             /\ QueryValue(wreq', "limit") = ToString(PageSize)
             /\ QueryValue(wreq', "watch") = NoneStr
             /\ ans.type = "FAIL" => wst' = EmptyState /\ emitted' = emitted
             /\ (ans.type = "PAGE" /\ ans.continue # NoneStr)
                  => /\ emitted' = emitted
                     /\ wst'.tag = "Empty"
                     /\ wst'.continue_token = ans.continue
             /\ IsFinalPage(ans)
                  => /\ emitted' = Append(emitted,
                            [type |-> "Restarted",
                             objs |-> PagesBefore(wlog, Len(wlog)) \o ans.items])
                     /\ wst'.tag = "Watching"
                     /\ wst'.rv = ans.rv
      ]_vars

\* C14 witness: a first page, a failure, then the list anew in two pages with
\* different versions: one Restarted with the items of the last two pages, and
\* the version of the final page held.
C14_Witness ==
    /\ Len(wlog) = 4
    /\ wlog[1].type = "PAGE" /\ wlog[1].continue # NoneStr /\ wlog[1].items # <<>>
    /\ wlog[2].type = "FAIL"
    /\ wlog[3].type = "PAGE" /\ wlog[3].continue # NoneStr
    /\ IsFinalPage(wlog[4]) /\ wlog[4].rv # wlog[3].rv
    /\ Len(wlog[3].items) = 1 /\ Len(wlog[4].items) = 1
    /\ emitted = <<[type |-> "Restarted", objs |-> wlog[3].items \o wlog[4].items]>>
    /\ wst.tag = "Watching" /\ wst.rv = wlog[4].rv
    /\ QueryValue(wreq, "continue") = wlog[3].continue

(***************************************************************************)
(* Part 5.  await_condition: wait until a predicate holds of an object     *)
(***************************************************************************)

\* What the wait observes before the model stops.
MaxObserved == 3

\* The pod as a predicate sees it: absent, or present in some phase.
Absent == "None"
Phases == {"Pending", "Running"}
PodStates == {Absent} \cup Phases

\* is_pod_running: the pod is there and its phase is Running.
IsPodRunning == {"Running"}

\* The predicates waited for: any pure function of Option<Object> to bool,
\* given by the states it accepts.
Conditions == SUBSET PodStates

\* The answer of the initial get: the object, or that there is none.
Gets == [type : {"GET"}, state : PodStates]

\* The events of the watch on the one object; each carries the object.
ObjectEvents == [type : {"ADDED", "MODIFIED", "DELETED"}, state : Phases]

\* A wait that hands the object of a DELETED event to the predicate.
EvaluatedBug(obs) == obs.state

\* The state the predicate is applied to: the object of the get or of an
\* ADDED / MODIFIED event, no object for a DELETED event.
Evaluated(obs) == IF obs.type = "DELETED" THEN Absent ELSE obs.state

Waiting == [tag |-> "waiting", value |-> Absent]

\* The outcome of one observation: resolved with the state if the predicate
\* accepts it, still waiting otherwise.
Observe(cond, obs) ==
    IF Evaluated(obs) \in cond
    THEN [tag |-> "resolved", value |-> Evaluated(obs)]
    ELSE Waiting

\* await_condition, before the watch: the single get.
AwaitGet(obs) ==
    /\ awOut.tag = "waiting"
    /\ awObs = <<>>
    /\ awObs' = <<obs>>
    /\ awOut' = Observe(awCond, obs)
    /\ UNCHANGED awCond
    /\ UNCHANGED notWait

\* await_condition, on the watch: the next event of the object.
AwaitEvent(obs) ==
    /\ awOut.tag = "waiting"
    /\ awObs # <<>>
    /\ Len(awObs) < MaxObserved
    /\ awObs' = Append(awObs, obs)
    /\ awOut' = Observe(awCond, obs)
    /\ UNCHANGED awCond
    /\ UNCHANGED notWait

\* tokio::time::timeout around the wait elapsed: the wait is dropped.
AwaitElapsed ==
    /\ awOut.tag = "waiting"
    /\ awOut' = [tag |-> "elapsed", value |-> Absent]
    /\ UNCHANGED <<awCond, awObs>>
    /\ UNCHANGED notWait

WaitNext ==
    \/ \E obs \in Gets : AwaitGet(obs)
    \/ \E obs \in ObjectEvents : AwaitEvent(obs)
    \/ AwaitElapsed

\* A wait for any predicate, nothing observed yet.
WaitInit ==
    /\ LeaseIdle /\ StoreIdle /\ LastIdle /\ ReflIdle /\ WatcherIdle /\ UpgradeIdle /\ FlattenIdle
    /\ ClientIdle /\ EventsIdle
    /\ awCond \in Conditions
    /\ awObs = <<>>
    /\ awOut = Waiting

WaitSpec == WaitInit /\ [][WaitNext]_vars

(***************************************************************************)
(* Claims about await_condition                                            *)
(***************************************************************************)

\* The state of the object that an observation shows.
StateSeen(obs) == IF obs.type = "DELETED" THEN "None" ELSE obs.state

\* C15: the wait is resolved exactly when the last state it observed (the get,
\* or a watch event, a DELETED counting as no object) is the first one the
\* predicate accepts, and resolves with that state; while it waits, and when
\* it is abandoned, no state it observed was accepted.
C15_ResolvesAtFirstTrue ==
    /\ awOut.tag = "resolved" =>
         /\ awObs # <<>>
         /\ awOut.value = StateSeen(Last(awObs))
         /\ StateSeen(Last(awObs)) \in awCond
         /\ \A i \in 1..(Len(awObs) - 1) : StateSeen(awObs[i]) \notin awCond
    /\ awOut.tag # "resolved" =>
         \A i \in 1..Len(awObs) : StateSeen(awObs[i]) \notin awCond

\* C15 witness: waiting for the pod to be gone, the get and a MODIFIED showed
\* it Running, then a DELETED carrying the Running pod resolved the wait.
C15_Witness ==
    /\ awCond = {"None"}
    /\ Len(awObs) = 3
    /\ awObs[1] = [type |-> "GET", state |-> "Running"]
    /\ awObs[2] = [type |-> "MODIFIED", state |-> "Running"]
    /\ awObs[3] = [type |-> "DELETED", state |-> "Running"]
    /\ awOut = [tag |-> "resolved", value |-> "None"]

(***************************************************************************)
(* Part 6.  WebSocket upgrade: verify_response                             *)
(* (kube-client/src/client/upgrade.rs)                                     *)
(***************************************************************************)

\* StatusCode::SWITCHING_PROTOCOLS and a status that is not.
SwitchingProtocols == 101
StatusOk == 200

\* StreamProtocol::as_str.
AsStr(p) == IF p = "V4" THEN "v4.channel.k8s.io" ELSE "v5.channel.k8s.io"

\* Sec-WebSocket-Key values of requests, with the accept keys that
\* derive_accept_key (base64 of the SHA-1 of key and GUID) gives for them.
WsKeys == {"dGhlIHNhbXBsZSBub25jZQ==", "x3JJHMbDL1EzLkh9GBhXDw=="}

DeriveAcceptKey(key) ==
    IF key = "dGhlIHNhbXBsZSBub25jZQ==" THEN "s3pPLMBiTxaQ9kYGzzhZRbK+xOo="
    ELSE "HSmrc0sMlYUkAGmm5OPpG2HaGWk="

\* A header value that is not visible ASCII: HeaderValue::to_str fails on it.
Opaque == "<opaque>"

\* Values a response may carry under each header; NoneStr for no such header.
UpgradeValues == {NoneStr, "websocket", "WebSocket", "h2c", Opaque}
ConnectionValues == {NoneStr, "Upgrade", "upgrade", "keep-alive"}
AcceptValues == {NoneStr} \cup {DeriveAcceptKey(k) : k \in WsKeys}
ProtocolValues == {NoneStr, AsStr("V4"), AsStr("V5"), "channel.k8s.io"}

Responses ==
    [status : {SwitchingProtocols, StatusOk}, upgrade : UpgradeValues,
     connection : ConnectionValues, accept : AcceptValues, protocol : ProtocolValues]

\* The ASCII lower case of the header values above.
ToAsciiLowercase(h) ==
    CASE h = "WebSocket" -> "websocket"
      [] h = "Upgrade" -> "upgrade"
      [] OTHER -> h

\* headers.get(..).and_then(|h| h.to_str().ok())
\*        .map(|h| h.eq_ignore_ascii_case(want)).unwrap_or(false)
HeaderIs(h, want) ==
    /\ h # NoneStr
    /\ h # Opaque
    /\ ToAsciiLowercase(h) = ToAsciiLowercase(want)

Ok(protocol) == [tag |-> "Ok", protocol |-> protocol, error |-> "", status |-> 0]

Err(error, status) == [tag |-> "Err", protocol |-> "", error |-> error, status |-> status]

\* A get_subprotocol that takes any subprotocol header for v4.
GetSubprotocolBug(r) == IF r.protocol = NoneStr THEN NoneStr ELSE "V4"

\* get_subprotocol: the StreamProtocol whose name the header is, byte for byte.
GetSubprotocol(r) ==
    IF r.protocol = NoneStr THEN NoneStr
    ELSE IF r.protocol = AsStr("V4") THEN "V4"
    ELSE IF r.protocol = AsStr("V5") THEN "V5"
    ELSE NoneStr

\* verify_response.
VerifyResponse(r, key) ==
    IF r.status # SwitchingProtocols THEN Err("ProtocolSwitch", r.status)
    ELSE IF ~HeaderIs(r.upgrade, "websocket")
    THEN Err("MissingUpgradeWebSocketHeader", 0)
    ELSE IF ~HeaderIs(r.connection, "Upgrade")
    THEN Err("MissingConnectionUpgradeHeader", 0)
    ELSE IF ~(r.accept # NoneStr /\ r.accept = DeriveAcceptKey(key))
    THEN Err("SecWebSocketAcceptKeyMismatch", 0)
    ELSE IF GetSubprotocol(r) = NoneStr
    THEN Err("SecWebSocketProtocolMismatch", 0)
    ELSE Ok(GetSubprotocol(r))

\* The response to the upgrade request is verified.
Verify ==
    /\ verdict = <<>>
    /\ verdict' = VerifyResponse(res, wsKey)
    /\ UNCHANGED <<res, wsKey, wsOffer, connected>>
    /\ UNCHANGED notUpgrade

\* The subprotocols a request offers, in order: add_to_exec_headers inserts
\* v5 and appends v4, add_to_portforward_headers inserts v4.
AddToExecHeaders == <<"V5", "V4">>
AddToPortforwardHeaders == <<"V4">>

Offered(request) ==
    IF request = "exec" THEN AddToExecHeaders ELSE AddToPortforwardHeaders

\* The one subprotocol Client::connect offers and accepts.
WS_PROTOCOL == "v4.channel.k8s.io"

\* verify_upgrade_response of Client::connect: Ok(()) carries no protocol,
\* the connection runs on WS_PROTOCOL.
VerifyUpgradeResponse(r, key) ==
    IF r.status # SwitchingProtocols THEN Err("ProtocolSwitch", r.status)
    ELSE IF ~HeaderIs(r.upgrade, "websocket")
    THEN Err("MissingUpgradeWebSocketHeader", 0)
    ELSE IF ~HeaderIs(r.connection, "Upgrade")
    THEN Err("MissingConnectionUpgradeHeader", 0)
    ELSE IF ~(r.accept # NoneStr /\ r.accept = DeriveAcceptKey(key))
    THEN Err("SecWebSocketAcceptKeyMismatch", 0)
    ELSE IF ~(r.protocol # NoneStr /\ r.protocol = WS_PROTOCOL)
    THEN Err("SecWebSocketProtocolMismatch", 0)
    ELSE Ok("V4")

\* Client::connect verifies the response to the request it sent.
ConnectVerify ==
    /\ connected = <<>>
    /\ connected' = VerifyUpgradeResponse(res, wsKey)
    /\ UNCHANGED <<res, wsKey, verdict, wsOffer>>
    /\ UNCHANGED notUpgrade

UpgradeNext == Verify \/ ConnectVerify

\* Any response to a request sent with any key.
UpgradeInit ==
    /\ LeaseIdle /\ StoreIdle /\ LastIdle /\ ReflIdle /\ WatcherIdle /\ WaitIdle /\ FlattenIdle
    /\ ClientIdle /\ EventsIdle
    /\ res \in Responses
    /\ wsKey \in WsKeys
    /\ verdict = <<>>
    /\ wsOffer \in {"exec", "portforward"}
    /\ connected = <<>>

UpgradeSpec == UpgradeInit /\ [][UpgradeNext]_vars

(***************************************************************************)
(* Claims about the upgrade                                                *)
(***************************************************************************)

\* C16: verify_response returns the negotiated protocol if and only if the
\* status is 101, Upgrade is websocket in any case, Connection is Upgrade in
\* any case, Sec-WebSocket-Accept is the accept key of the request key, and
\* Sec-WebSocket-Protocol is v4.channel.k8s.io or v5.channel.k8s.io; otherwise
\* it returns the error of the first of these checks that fails.
C16_VerifyResponse ==
    verdict # <<>> =>
        LET statusOk == res.status = 101
            upgradeOk == res.upgrade \in {"websocket", "WebSocket"}
            connectionOk == res.connection \in {"Upgrade", "upgrade"}
            acceptOk == \/ /\ wsKey = "dGhlIHNhbXBsZSBub25jZQ=="
                           /\ res.accept = "s3pPLMBiTxaQ9kYGzzhZRbK+xOo="
                        \/ /\ wsKey = "x3JJHMbDL1EzLkh9GBhXDw=="
                           /\ res.accept = "HSmrc0sMlYUkAGmm5OPpG2HaGWk="
            protocolOk == res.protocol \in {"v4.channel.k8s.io", "v5.channel.k8s.io"}
        IN  /\ verdict.tag = "Ok"
                <=> statusOk /\ upgradeOk /\ connectionOk /\ acceptOk /\ protocolOk
            /\ verdict.tag = "Ok" =>
                 verdict.protocol = (IF res.protocol = "v4.channel.k8s.io"
                                     THEN "V4" ELSE "V5")
            /\ verdict.tag = "Err" =>
                 /\ verdict.error =
                      (IF ~statusOk THEN "ProtocolSwitch"
                       ELSE IF ~upgradeOk THEN "MissingUpgradeWebSocketHeader"
                       ELSE IF ~connectionOk THEN "MissingConnectionUpgradeHeader"
                       ELSE IF ~acceptOk THEN "SecWebSocketAcceptKeyMismatch"
                       ELSE "SecWebSocketProtocolMismatch")
                 /\ verdict.error = "ProtocolSwitch" => verdict.status = res.status

\* C16 witness: a 101 response with mixed-case Upgrade and Connection headers,
\* the right accept key and subprotocol v5 was accepted as V5.
C16_Witness ==
    /\ verdict # <<>>
    /\ verdict.tag = "Ok" /\ verdict.protocol = "V5"
    /\ res.upgrade = "WebSocket" /\ res.connection = "upgrade"
    /\ res.protocol = "v5.channel.k8s.io"

\* C37: the subprotocol accepted by upgrade verification is always one the
\* request offered: exec and attach offer v5 then v4 and may be upgraded on
\* either; port-forward offers only v4 and is never upgraded on a response
\* selecting v5; Client::connect offers only v4 and accepts only v4.
C37_AcceptedWasOffered ==
    /\ verdict # <<>> /\ verdict.tag = "Ok" =>
         \E i \in 1..Len(Offered(wsOffer)) : Offered(wsOffer)[i] = verdict.protocol
    /\ connected # <<>> /\ connected.tag = "Ok" => res.protocol = "v4.channel.k8s.io"

(***************************************************************************)
(* Part 7.  EventFlatten: watch_applies and watch_touches                  *)
(* (kube-runtime/src/utils/watch_ext.rs)                                   *)
(***************************************************************************)

\* Items the underlying stream is given, and polls of the flattened stream,
\* before the model stops.
MaxInput == 2
MaxPolls == 5

\* The items of the underlying watcher stream: events over two objects, and
\* an error.
FlatItems ==
    {ev \in Events : \A i \in 1..Len(ev.objs) : ev.objs[i].val = 1}
    \cup {WatchError}

\* Items of the flattened stream: Ok(object) or Err(error).
OkObj(o) == [tag |-> "Ok", obj |-> o]
ErrItem == [tag |-> "Err", obj |-> <<>>]

\* Poll results.
PollReady(item) == [poll |-> "Ready", item |-> item]
PollPending == [poll |-> "Pending", item |-> NoItem]

\* A flattened stream that ends when the underlying stream does.
AtEndBug == [poll |-> "ReadyNone", item |-> NoItem]

\* What poll_next returns when the underlying stream returns None.
AtEnd == PollPending

\* A flattened stream that passes every Deleted on.
PassDeletedBug(delete) == TRUE

\* Whether the object of a Deleted event is yielded: `if *me.delete`.
PassDeleted(delete) == delete

\* A poll_next that takes the elements of a Restarted from the front.
RECURSIVE PollNextBug(_, _, _, _)
PollNextBug(state, stream, ended, delete) ==
    IF state # NoItem /\ state.type \in {"Applied", "Deleted"}
    THEN IF state.type = "Applied" \/ delete
         THEN [result |-> PollReady(OkObj(state.objs[1])), state |-> NoItem,
               stream |-> stream]
         ELSE PollNextBug(NoItem, stream, ended, delete)
    ELSE IF state # NoItem /\ state.type = "Restarted" /\ state.objs # <<>>
    THEN [result |-> PollReady(OkObj(Head(state.objs))),
          state |-> [type |-> "Restarted", objs |-> Tail(state.objs)],
          stream |-> stream]
    ELSE IF state # NoItem /\ state.type = "Error"
    THEN [result |-> PollReady(ErrItem), state |-> NoItem, stream |-> stream]
    ELSE IF stream # <<>>
    THEN PollNextBug(Head(stream), Tail(stream), ended, delete)
    ELSE [result |-> IF ended THEN AtEnd ELSE PollPending,
          state |-> NoItem, stream |-> stream]

\* EventFlatten::poll_next: the loop over the item in `state` and the items of
\* the underlying stream, to its return. Gives the poll result with the new
\* `state` and what is left of the underlying stream.
RECURSIVE PollNext(_, _, _, _)
PollNext(state, stream, ended, delete) ==
    IF state # NoItem /\ state.type = "Applied"
    THEN [result |-> PollReady(OkObj(state.objs[1])), state |-> NoItem, stream |-> stream]
    ELSE IF state # NoItem /\ state.type = "Deleted" /\ PassDeleted(delete)
    THEN [result |-> PollReady(OkObj(state.objs[1])), state |-> NoItem, stream |-> stream]
    ELSE IF state # NoItem /\ state.type = "Restarted" /\ state.objs # <<>>
    THEN [result |-> PollReady(OkObj(state.objs[Len(state.objs)])),
          state |-> [type |-> "Restarted",
                     objs |-> SubSeq(state.objs, 1, Len(state.objs) - 1)],
          stream |-> stream]
    ELSE IF state # NoItem /\ state.type = "Error"
    THEN [result |-> PollReady(ErrItem), state |-> NoItem, stream |-> stream]
    ELSE IF stream # <<>>
    THEN PollNext(Head(stream), Tail(stream), ended, delete)
    ELSE [result |-> IF ended THEN AtEnd ELSE PollPending,
          state |-> NoItem, stream |-> stream]

\* The watcher behind the flattened stream produces an item.
Feed(item) ==
    /\ ~fended
    /\ Len(fsrc) < MaxInput
    /\ fsrc' = Append(fsrc, item)
    /\ fin' = Append(fin, item)
    /\ UNCHANGED <<fended, fdelete, fstate, fout, ftrace>>
    /\ UNCHANGED notFlatten

\* The underlying stream comes to its end.
End ==
    /\ ~fended
    /\ fended' = TRUE
    /\ ftrace' = Append(ftrace, "End")
    /\ UNCHANGED <<fsrc, fin, fdelete, fstate, fout>>
    /\ UNCHANGED notFlatten

\* The consumer polls the flattened stream once.
Poll ==
    /\ Len(SelectSeq(ftrace, LAMBDA r : r # "End")) < MaxPolls
    /\ LET p == PollNext(fstate, fin, fended, fdelete)
       IN  /\ fstate' = p.state
           /\ fin' = p.stream
           /\ fout' = IF p.result.poll = "Ready" THEN Append(fout, p.result.item)
                      ELSE fout
           /\ ftrace' = Append(ftrace, p.result.poll)
    /\ UNCHANGED <<fsrc, fended, fdelete>>
    /\ UNCHANGED notFlatten

FlattenNext ==
    \/ \E item \in FlatItems : Feed(item)
    \/ End
    \/ Poll

\* EventFlatten::new(stream, delete): watch_applies passes false,
\* watch_touches true.
FlattenInit ==
    /\ LeaseIdle /\ StoreIdle /\ LastIdle /\ ReflIdle /\ WatcherIdle /\ WaitIdle /\ UpgradeIdle
    /\ ClientIdle /\ EventsIdle
    /\ fsrc = <<>>
    /\ fin = <<>>
    /\ fended = FALSE
    /\ fdelete \in BOOLEAN
    /\ fstate = NoItem
    /\ fout = <<>>
    /\ ftrace = <<>>

FlattenSpec == FlattenInit /\ [][FlattenNext]_vars

(***************************************************************************)
(* Claims about the flattened stream                                       *)
(***************************************************************************)

IsPrefix(s, t) == Len(s) <= Len(t) /\ s = SubSeq(t, 1, Len(s))

\* The orders in which the elements of a list can follow each other.
Orders(l) ==
    {[i \in 1..Len(l) |-> l[f[i]]] :
        f \in {g \in [1..Len(l) -> 1..Len(l)] :
                  \A i, j \in 1..Len(l) : g[i] = g[j] => i = j}}

\* What one input item may contribute to the flattened stream: the object of
\* an Applied, that of a Deleted if deletes are passed on, the elements of a
\* Restarted each once in some order, an error for an error.
Contributions(item, delete) ==
    CASE item.type = "Applied" -> {<<[tag |-> "Ok", obj |-> item.objs[1]]>>}
      [] item.type = "Deleted" ->
            IF delete THEN {<<[tag |-> "Ok", obj |-> item.objs[1]]>>} ELSE {<<>>}
      [] item.type = "Restarted" ->
            {[i \in 1..Len(l) |-> [tag |-> "Ok", obj |-> l[i]]] : l \in Orders(item.objs)}
      [] item.type = "Error" -> {<<[tag |-> "Err", obj |-> <<>>]>>}

\* The outputs allowed for the first n input items: contributions of the
\* items, in input order.
RECURSIVE Allowed(_, _, _)
Allowed(items, n, delete) ==
    IF n = 0 THEN {<<>>}
    ELSE {a \o c : a \in Allowed(items, n - 1, delete),
                   c \in Contributions(items[n], delete)}

\* Nothing is left to yield: the underlying stream holds no item and `state`
\* holds none or a Restarted emptied of its elements.
Drained ==
    /\ fin = <<>>
    /\ fstate = NoItem \/ fstate.objs = <<>>

\* C17: what watch_applies (delete = FALSE) or watch_touches (delete = TRUE)
\* has yielded is always the beginning of the contributions of the input
\* items in input order -- the object of an Applied, of a Deleted for
\* watch_touches only, every element of a Restarted once, an error for an
\* error, later items still served after an error -- and is all of them once
\* nothing is left to yield.
C17_FlattenYields ==
    /\ \E a \in Allowed(fsrc, Len(fsrc), fdelete) : IsPrefix(fout, a)
    /\ Drained => fout \in Allowed(fsrc, Len(fsrc), fdelete)

\* C17 witness: watch_applies over an error, then a Restarted of two objects,
\* has yielded the error and then both objects.
C17_Witness ==
    /\ ~fdelete
    /\ Len(fsrc) = 2
    /\ fsrc[1].type = "Error"
    /\ fsrc[2].type = "Restarted" /\ Len(fsrc[2].objs) = 2
    /\ Len(fout) = 3
    /\ fout[1].tag = "Err"
    /\ {fout[2].obj, fout[3].obj} = {fsrc[2].objs[1], fsrc[2].objs[2]}
    /\ Drained

\* C18: a poll made when the underlying stream has ended and nothing is left
\* to yield returns Pending and yields nothing, and no poll ever returns the
\* end of the stream.
C18_PendingAtEnd ==
    [][(ftrace' # ftrace /\ Last(ftrace') # "End") =>
          /\ Last(ftrace') \in {"Ready", "Pending"}
          /\ (fended /\ Drained) => Last(ftrace') = "Pending" /\ fout' = fout
      ]_vars

\* C18 witness: after the one object was yielded and the stream ended, two
\* polls in a row returned Pending.
C18_Witness ==
    /\ fended
    /\ Len(fout) = 1
    /\ ftrace = <<"Ready", "End", "Pending", "Pending">>

\* What the input items yield, in order: the elements of a Restarted last
\* element first.
Reversed(l) == [i \in 1..Len(l) |-> l[Len(l) + 1 - i]]

RECURSIVE InOrder(_, _, _)
InOrder(items, n, delete) ==
    IF n = 0 THEN <<>>
    ELSE InOrder(items, n - 1, delete) \o
         (CASE items[n].type = "Applied" -> <<[tag |-> "Ok", obj |-> items[n].objs[1]]>>
            [] items[n].type = "Deleted" ->
                  IF delete THEN <<[tag |-> "Ok", obj |-> items[n].objs[1]]>> ELSE <<>>
            [] items[n].type = "Restarted" ->
                  [i \in 1..Len(items[n].objs) |->
                      [tag |-> "Ok", obj |-> Reversed(items[n].objs)[i]]]
            [] items[n].type = "Error" -> <<[tag |-> "Err", obj |-> <<>>]>>)

\* C34: the elements of one Restarted list are yielded in reverse list
\* order, last element first, at most one per poll, and all of them before
\* any item of a later input event.
C34_RestartedInReverse ==
    [][/\ IsPrefix(fout', InOrder(fsrc', Len(fsrc'), fdelete'))
       /\ Len(fout') <= Len(fout) + 1
       /\ Len(fout') = Len(fout) + 1 => Last(ftrace') = "Ready"
      ]_vars

\* C34 witness: a Restarted of two different objects and then an Applied:
\* the second object, the first, then the applied one.
C34_Witness ==
    /\ Len(fsrc) = 2
    /\ fsrc[1].type = "Restarted" /\ Len(fsrc[1].objs) = 2
    /\ fsrc[1].objs[1] # fsrc[1].objs[2]
    /\ fsrc[2].type = "Applied"
    /\ Len(fout) = 3
    /\ fout[1].obj = fsrc[1].objs[2]
    /\ fout[2].obj = fsrc[1].objs[1]
    /\ fout[3].obj = fsrc[2].objs[1]

(***************************************************************************)
(* Part 8.  Client: request, request_text, request_status and              *)
(* request_text_stream (kube/src/client/mod.rs)                            *)
(***************************************************************************)

Operations == {"request", "request_text", "request_status", "request_text_stream"}

\* Statuses of the response: around the ends of [400, 600).
Statuses == {200, 399, 400, 404, 499, 500, 599, 600}

\* Bodies of the response: a Status object, a JSON value of the type asked
\* for (not an object), text that is not JSON, bytes that are not UTF-8.
Bodies ==
    {[kind |-> "status", code |-> 404, reason |-> "NotFound"],
     [kind |-> "status", code |-> 410, reason |-> "Gone"],
     [kind |-> "json", code |-> 0, reason |-> ""],
     [kind |-> "text", code |-> 0, reason |-> ""],
     [kind |-> "binary", code |-> 0, reason |-> ""]}

Calls == [op : Operations, status : Statuses, body : Bodies]

\* Results of an operation.
Done(value) == [tag |-> "Ok", value |-> value, code |-> 0, reason |-> ""]
Failed(error) == [tag |-> error, value |-> "", code |-> 0, reason |-> ""]
Api(code, reason) == [tag |-> "Api", value |-> "", code |-> code, reason |-> reason]

\* s.is_client_error() || s.is_server_error()
IsErrorStatus(s) == (400 <= s /\ s < 500) \/ (500 <= s /\ s < 600)

\* handle_api_errors: Err(Error::Api(..)) with the Status of the body or a
\* made-up one, or Ok(()) given as the text itself.
HandleApiErrors(body, s) ==
    IF IsErrorStatus(s)
    THEN IF body.kind = "status" THEN Api(body.code, body.reason)
         ELSE Api(s, "Failed to parse error data")
    ELSE Done("text")

\* Client::request_text.
RequestText(c) ==
    IF c.body.kind = "binary" THEN Failed("FromUtf8")
    ELSE HandleApiErrors(c.body, c.status)

\* Client::request::<T>.
Request(c) ==
    IF RequestText(c).tag # "Ok" THEN RequestText(c)
    ELSE IF c.body.kind = "json" THEN Done("T") ELSE Failed("SerdeError")

\* Client::request_status::<T>.
RequestStatus(c) ==
    IF RequestText(c).tag # "Ok" THEN RequestText(c)
    ELSE IF c.body.kind = "text" THEN Failed("SerdeError")
    ELSE IF c.body.kind = "status" THEN Done("Right(Status)")
    ELSE Done("Left(T)")

\* Client::request_text_stream: the body of the response, whatever its status.
RequestTextStream(c) == Done("stream")

\* The operation returns.
Return ==
    /\ outcome = <<>>
    /\ outcome' = CASE call.op = "request" -> Request(call)
                    [] call.op = "request_text" -> RequestText(call)
                    [] call.op = "request_status" -> RequestStatus(call)
                    [] call.op = "request_text_stream" -> RequestTextStream(call)
    /\ UNCHANGED call
    /\ UNCHANGED notClient

ClientNext == Return

\* Any of the operations, its request answered by any response.
ClientInit ==
    /\ LeaseIdle /\ StoreIdle /\ LastIdle /\ ReflIdle /\ WatcherIdle /\ WaitIdle /\ UpgradeIdle
    /\ FlattenIdle /\ EventsIdle
    /\ call \in Calls
    /\ outcome = <<>>

ClientSpec == ClientInit /\ [][ClientNext]_vars

(***************************************************************************)
(* Claims about the client                                                 *)
(***************************************************************************)

\* C19: whichever of request, request_text, request_status and
\* request_text_stream was called, a response with a status in [400, 600)
\* makes it return an ApiStatus error -- with the Status of the body, or with
\* code = status and reason "Failed to parse error data" when the body is not
\* a Status -- and a response with any other status never does. (Stated for
\* bodies that are UTF-8 text.)
C19_ErrorClassification ==
    (outcome # <<>> /\ call.body.kind # "binary") =>
        IF call.status >= 400 /\ call.status < 600
        THEN /\ outcome.tag = "Api"
             /\ IF call.body.kind = "status"
                THEN outcome.code = call.body.code /\ outcome.reason = call.body.reason
                ELSE /\ outcome.code = call.status
                     /\ outcome.reason = "Failed to parse error data"
        ELSE outcome.tag # "Api"

(***************************************************************************)
(* Part 9.  Client::request_events: the lines of a watch response decoded  *)
(* as WatchEvents (kube/src/client/mod.rs)                                 *)
(***************************************************************************)

\* What the body delivers before the model stops.
MaxFrames == 3

\* No bytes buffered after the last newline.
NoBytes == <<>>

\* WatchEvents found on the lines.
LineEvents ==
    {ev \in WatchEvents :
        \/ ev.type \in {"ADDED", "DELETED"} /\ ev.items[1].key = "cm-a"
        \/ ev.type = "ERROR" /\ ev.code = 410}

\* The text of a line: nothing, the JSON of a WatchEvent or of a Status,
\* whole or cut short, or something that is not JSON.
LineTexts ==
    {[kind |-> "empty", complete |-> TRUE, ev |-> <<>>]}
    \cup {[kind |-> "event", complete |-> TRUE, ev |-> e] : e \in LineEvents}
    \cup {[kind |-> "event", complete |-> FALSE, ev |-> <<>>]}
    \cup {[kind |-> "status", complete |-> c, ev |-> <<>>] : c \in BOOLEAN}
    \cup {[kind |-> "garbage", complete |-> TRUE, ev |-> <<>>]}

\* The errors of the body after map_err: what a hyper error becomes.
IoKinds == {"TimedOut", "UnexpectedEof", "Other"}

\* serde_json::from_str::<WatchEvent<T>>(line): Ok, an error with is_eof()
\* (the text ended before the value did), or another error.
FromStrWatchEvent(text) ==
    IF text.kind = "empty" \/ ~text.complete THEN "eof"
    ELSE IF text.kind = "event" THEN "ok"
    ELSE "error"

\* serde_json::from_str::<Status>(line).is_ok()
FromStrStatus(text) == text.kind = "status" /\ text.complete

\* Items of the stream request_events returns.
EventOk(ev) == [tag |-> "Ok", ev |-> ev]
EventErr(error) == [tag |-> error, ev |-> <<>>]

\* The filter_map closure on Ok(line): what the line yields.
DecodeLine(text) ==
    IF FromStrWatchEvent(text) = "ok" THEN <<EventOk(text.ev)>>
    ELSE IF FromStrWatchEvent(text) = "eof" THEN <<>>
    ELSE IF FromStrStatus(text) THEN <<EventErr("Api")>>
    ELSE <<EventErr("SerdeError")>>

\* A stream that lets every I/O error through.
IgnoredBug(kind) == FALSE

\* The I/O errors the closure ignores: the client timeout and the unexpected
\* EOF of the chunked decoder.
Ignored(kind) == kind \in {"TimedOut", "UnexpectedEof"}

\* The filter_map closure on Err(LinesCodecError::Io(e)).
DecodeIoError(kind) ==
    IF Ignored(kind) THEN <<>> ELSE <<EventErr("ReadEvents")>>

Frame(frame, text, terminated, io) ==
    [frame |-> frame, text |-> text, terminated |-> terminated, io |-> io]

\* A line and its newline arrive: LinesCodec::decode gives the line.
RecvLine(text) ==
    /\ phase = "open"
    /\ partial = NoBytes
    /\ Len(frames) < MaxFrames
    /\ frames' = Append(frames, Frame("line", text, TRUE, ""))
    /\ yielded' = yielded \o DecodeLine(text)
    /\ UNCHANGED <<partial, phase>>
    /\ UNCHANGED notEvents

\* Bytes with no newline arrive: they stay in the read buffer.
RecvPartial(text) ==
    /\ phase = "open"
    /\ partial = NoBytes
    /\ text.kind # "empty"
    /\ Len(frames) < MaxFrames
    /\ partial' = text
    /\ UNCHANGED <<frames, yielded, phase>>
    /\ UNCHANGED notEvents

\* Reading the body fails.
BodyError(kind) ==
    /\ phase = "open"
    /\ Len(frames) < MaxFrames
    /\ frames' = Append(frames, Frame("io", <<>>, FALSE, kind))
    /\ yielded' = yielded \o DecodeIoError(kind)
    /\ phase' = "errored"
    /\ UNCHANGED partial
    /\ UNCHANGED notEvents

\* The body ends: LinesCodec::decode_eof gives the buffered bytes as the last
\* line, and the stream ends.  After a read error the framed reader either
\* reads on to the end of the body or stops at once, dropping the buffered
\* bytes: which one depends on the tokio-util the build links.
BodyEnd ==
    /\ phase \in {"open", "errored"}
    /\ phase' = "ended"
    /\ \E flush \in (IF phase = "errored" THEN BOOLEAN ELSE {TRUE}) :
         IF partial = NoBytes \/ ~flush
         THEN UNCHANGED <<frames, yielded>>
         ELSE /\ frames' = Append(frames, Frame("line", partial, FALSE, ""))
              /\ yielded' = yielded \o DecodeLine(partial)
    /\ partial' = NoBytes
    /\ UNCHANGED notEvents

EventsNext ==
    \/ \E text \in LineTexts : RecvLine(text)
    \/ \E text \in LineTexts : RecvPartial(text)
    \/ \E kind \in IoKinds : BodyError(kind)
    \/ BodyEnd

EventsInit ==
    /\ LeaseIdle /\ StoreIdle /\ LastIdle /\ ReflIdle /\ WatcherIdle /\ WaitIdle /\ UpgradeIdle
    /\ FlattenIdle /\ ClientIdle /\ EventsIdle

EventsSpec == EventsInit /\ [][EventsNext]_vars

(***************************************************************************)
(* Claims about request_events                                             *)
(***************************************************************************)

\* What the claim gives for one delivery of the body.
Yield(f) ==
    IF f.frame = "io"
    THEN IF f.io \in {"TimedOut", "UnexpectedEof"} THEN <<>>
         ELSE <<[tag |-> "ReadEvents", ev |-> <<>>]>>
    ELSE IF f.text.kind = "empty" \/ ~f.text.complete THEN <<>>
    ELSE IF f.text.kind = "event" THEN <<[tag |-> "Ok", ev |-> f.text.ev]>>
    ELSE IF f.text.kind = "status" THEN <<[tag |-> "Api", ev |-> <<>>]>>
    ELSE <<[tag |-> "SerdeError", ev |-> <<>>]>>

RECURSIVE Yields(_, _)
Yields(fs, n) == IF n = 0 THEN <<>> ELSE Yields(fs, n - 1) \o Yield(fs[n])

C39_NoSilentDrop ==
    [][(/\ Len(frames') = Len(frames) + 1
        /\ frames'[Len(frames')].frame = "line"
        /\ frames'[Len(frames')].terminated
        /\ frames'[Len(frames')].text.kind # "empty")
          => Len(yielded') = Len(yielded) + 1
      ]_vars

(***************************************************************************)
(* Part 10.  The conversion envelope: ConversionReview, ConversionRequest  *)
(* and ConversionResponse (kube-core/src/conversion/types.rs)              *)
(***************************************************************************)

\* The longest list of objects a request or a response carries.
MaxObjects == 2

\* How many builder calls follow the constructor of a response.
MaxCalls == 3

META_KIND == "ConversionReview"
META_API_VERSION_V1 == "apiextensions.k8s.io/v1"

\* Option<T>: None, Some(x), and the value of a Some.
None == <<>>
Some(x) == <<x>>
Unwrap(opt) == opt[1]

TypeMeta(api_version, kind) == [api_version |-> api_version, kind |-> kind]

\* The TypeMeta a review arrives with.
TypeMetas ==
    {TypeMeta(META_API_VERSION_V1, META_KIND),
     TypeMeta("apiextensions.k8s.io/v1beta1", META_KIND)}

\* Objects to convert, and the conversion the webhook computes for each.
Raw == {"a.v1", "b.v1"}
Convert(obj) == IF obj = "a.v1" THEN "a.v2" ELSE "b.v2"
Converted == {Convert(obj) : obj \in Raw}

\* Vec<serde_json::Value>: the lists of at most n values of a set.
ListsOf(S, n) == UNION {[1..k -> S] : k \in 0..n}

MapConvert(objs) == [i \in 1..Len(objs) |-> Convert(objs[i])]

Uids == {"uid-1"}

\* Status: the zero value for_request sets, Status::success() and
\* Status::failure(message, reason).
StatusZero == [status |-> "", code |-> 0, message |-> "", reason |-> ""]
StatusSuccess == [status |-> "Success", code |-> 0, message |-> "", reason |-> ""]
StatusFailure(message, reason) ==
    [status |-> "Failure", code |-> 0, message |-> message, reason |-> reason]

ConversionRequest(types, uid, objects) ==
    [types |-> types, uid |-> uid, desired_api_version |-> "example.com/v2",
     objects |-> objects]

ConversionResponse(types, uid, result, converted_objects) ==
    [types |-> types, uid |-> uid, result |-> result,
     converted_objects |-> converted_objects]

ConversionReview(types, request, response) ==
    [types |-> types, request |-> request, response |-> response]

\* The reviews the apiserver sends: a request, no response; the request's own
\* types field is not on the wire.
IncomingReviews ==
    {ConversionReview(t, Some(ConversionRequest(None, u, objs)), None) :
        t \in TypeMetas, u \in Uids, objs \in ListsOf(Raw, MaxObjects)}

\* TryFrom<ConversionReview> for ConversionRequest (a review with a request).
FromReview(review) ==
    [Unwrap(review.request) EXCEPT !.types = Some(review.types)]

\* From<ConversionRequest> for ConversionResponse
ForRequest(request) ==
    ConversionResponse(request.types, request.uid, StatusZero, <<>>)

\* A success that keeps the objects the response had.
SuccessBug(response, converted_objects) ==
    [response EXCEPT !.result = StatusSuccess]

\* ConversionResponse::success
Success(response, converted_objects) ==
    [response EXCEPT !.result = StatusSuccess,
                     !.converted_objects = converted_objects]

\* ConversionResponse::failure
Failure(response, message, reason) ==
    [response EXCEPT !.result = StatusFailure(message, reason)]

\* ConversionResponse::invalid
Invalid(message, reason) ==
    ConversionResponse(None, "", StatusFailure(message, reason), <<>>)

\* An into_review that always writes the v1 TypeMeta.
IntoReviewBug(response) ==
    ConversionReview(TypeMeta(META_API_VERSION_V1, META_KIND), None,
                     Some([response EXCEPT !.types = None]))

\* From<ConversionResponse> for ConversionReview: response.types.take()
\* leaves None in the response that is wrapped.
IntoReview(response) ==
    ConversionReview(
        IF response.types # None THEN Unwrap(response.types)
        ELSE TypeMeta(META_API_VERSION_V1, META_KIND),
        None,
        Some([response EXCEPT !.types = None]))

\* ConversionRequest::from_review on a review the apiserver sent.
CallFromReview(review) ==
    /\ cvReq = None
    /\ cvResp = None
    /\ cvValue = None
    /\ cvDoc = <<>>
    /\ cvIn' = Some(review)
    /\ cvReq' = Some(FromReview(review))
    /\ UNCHANGED <<cvResp, cvCalls, cvGiven, cvReview, cvValue, cvDoc, cvBack>>
    /\ UNCHANGED notConv

\* ConversionResponse::for_request(request)
CallForRequest ==
    /\ cvReq # None
    /\ cvResp = None
    /\ cvResp' = Some(ForRequest(Unwrap(cvReq)))
    /\ cvCalls' = <<"for_request">>
    /\ UNCHANGED <<cvIn, cvReq, cvGiven, cvReview, cvValue, cvDoc, cvBack>>
    /\ UNCHANGED notConv

\* ConversionResponse::invalid(message, reason)
CallInvalid ==
    /\ cvResp = None
    /\ cvValue = None
    /\ cvDoc = <<>>
    /\ cvResp' = Some(Invalid("bad review", "InvalidRequest"))
    /\ cvCalls' = <<"invalid">>
    /\ UNCHANGED <<cvIn, cvReq, cvGiven, cvReview, cvValue, cvDoc, cvBack>>
    /\ UNCHANGED notConv

\* response.success(converted_objects)
CallSuccess(converted_objects) ==
    /\ cvResp # None
    /\ cvReview = None
    /\ Len(cvCalls) <= MaxCalls
    /\ cvResp' = Some(Success(Unwrap(cvResp), converted_objects))
    /\ cvCalls' = Append(cvCalls, "success")
    /\ cvGiven' = converted_objects
    /\ UNCHANGED <<cvIn, cvReq, cvReview, cvValue, cvDoc, cvBack>>
    /\ UNCHANGED notConv

\* response.failure(message, reason)
CallFailure ==
    /\ cvResp # None
    /\ cvReview = None
    /\ Len(cvCalls) <= MaxCalls
    /\ cvResp' = Some(Failure(Unwrap(cvResp), "cannot convert", "ConversionFailed"))
    /\ cvCalls' = Append(cvCalls, "failure")
    /\ UNCHANGED <<cvIn, cvReq, cvGiven, cvReview, cvValue, cvDoc, cvBack>>
    /\ UNCHANGED notConv

\* response.into_review()
CallIntoReview ==
    /\ cvResp # None
    /\ cvReview = None
    /\ cvReview' = Some(IntoReview(Unwrap(cvResp)))
    /\ UNCHANGED <<cvIn, cvReq, cvResp, cvCalls, cvGiven, cvValue, cvDoc, cvBack>>
    /\ UNCHANGED notConv

\* JSON values of the convertedObjects field: no field at all, null, an array,
\* or something else (a number).
JMissing == [json |-> "missing", elems |-> <<>>]
JNull == [json |-> "null", elems |-> <<>>]
JArray(elems) == [json |-> "array", elems |-> elems]
JNumber == [json |-> "number", elems |-> <<>>]

\* What serde_json::from_value / from_str returns.
Parsed(value) == [ok |-> TRUE, value |-> value]
ParseError(error) == [ok |-> FALSE, error |-> error]

\* Serialize for ConversionRequest: `types` is #[serde(skip)].
SerializeRequest(request) ==
    [uid |-> request.uid, desiredAPIVersion |-> request.desired_api_version,
     objects |-> request.objects]

\* A serializer that writes null for the list.
SerializeResponseBug(response) ==
    [uid |-> response.uid, result |-> response.result, convertedObjects |-> JNull]

\* Serialize for ConversionResponse: `types` is #[serde(skip)].
SerializeResponse(response) ==
    [uid |-> response.uid, result |-> response.result,
     convertedObjects |-> JArray(response.converted_objects)]

\* Serialize for ConversionReview: TypeMeta flattened, request and response
\* skipped when None.
SerializeReview(review) ==
    [apiVersion |-> review.types.api_version, kind |-> review.types.kind,
     request |-> IF review.request = None THEN None
                 ELSE Some(SerializeRequest(Unwrap(review.request))),
     response |-> IF review.response = None THEN None
                  ELSE Some(SerializeResponse(Unwrap(review.response)))]

\* parse_converted_objects: the untagged Helper takes a list or null.
ParseConvertedObjects(json) ==
    IF json.json = "array" THEN Parsed(json.elems)
    ELSE IF json.json = "null" THEN Parsed(<<>>)
    ELSE ParseError("data did not match any variant of untagged enum Helper")

\* Deserialize for ConversionRequest: the skipped `types` is None.
DeserializeRequest(doc) ==
    [types |-> None, uid |-> doc.uid, desired_api_version |-> doc.desiredAPIVersion,
     objects |-> doc.objects]

\* Deserialize for ConversionResponse: a field with deserialize_with and no
\* default is required; the skipped `types` is None.
DeserializeResponse(doc) ==
    IF doc.convertedObjects.json = "missing"
    THEN ParseError("missing field convertedObjects")
    ELSE IF ~ParseConvertedObjects(doc.convertedObjects).ok
    THEN ParseConvertedObjects(doc.convertedObjects)
    ELSE Parsed(ConversionResponse(None, doc.uid, doc.result,
                    ParseConvertedObjects(doc.convertedObjects).value))

\* Deserialize for ConversionReview
DeserializeReview(doc) ==
    IF doc.response # None /\ ~DeserializeResponse(Unwrap(doc.response)).ok
    THEN DeserializeResponse(Unwrap(doc.response))
    ELSE Parsed(ConversionReview(
            TypeMeta(doc.apiVersion, doc.kind),
            IF doc.request = None THEN None
            ELSE Some(DeserializeRequest(Unwrap(doc.request))),
            IF doc.response = None THEN None
            ELSE Some(DeserializeResponse(Unwrap(doc.response)).value)))

\* The values of the three types, within the bounds.
OptionOf(S) == {None} \cup {Some(x) : x \in S}

Requests ==
    {ConversionRequest(t, u, objs) :
        t \in OptionOf(TypeMetas), u \in Uids, objs \in ListsOf(Raw, MaxObjects)}

Results == {StatusZero, StatusSuccess, StatusFailure("cannot convert", "ConversionFailed")}

Responses10 ==
    {ConversionResponse(t, u, r, objs) :
        t \in OptionOf(TypeMetas), u \in Uids \cup {""}, r \in Results,
        objs \in ListsOf(Converted, MaxObjects)}

Reviews ==
    {ConversionReview(t, req, resp) :
        t \in TypeMetas, req \in OptionOf(Requests), resp \in OptionOf(Responses10)}

\* The response documents a webhook may write.
ResponseDocs ==
    {[uid |-> u, result |-> r, convertedObjects |-> j] :
        u \in Uids, r \in Results,
        j \in {JMissing, JNull, JNumber}
              \cup {JArray(objs) : objs \in ListsOf(Converted, MaxObjects)}}

\* The review into_review made is written out and read back.
Send ==
    /\ cvReview # None
    /\ cvDoc = <<>>
    /\ cvValue' = cvReview
    /\ cvDoc' = <<SerializeReview(Unwrap(cvReview))>>
    /\ cvBack' = DeserializeReview(SerializeReview(Unwrap(cvReview)))
    /\ UNCHANGED <<cvIn, cvReq, cvResp, cvCalls, cvGiven, cvReview>>
    /\ UNCHANGED notConv

\* serde_json::to_value(review), then serde_json::from_value of the result.
RoundTrip(review) ==
    /\ cvReq = None
    /\ cvResp = None
    /\ cvDoc = <<>>
    /\ cvValue' = Some(review)
    /\ cvDoc' = <<SerializeReview(review)>>
    /\ cvBack' = DeserializeReview(SerializeReview(review))
    /\ UNCHANGED <<cvIn, cvReq, cvResp, cvCalls, cvGiven, cvReview>>
    /\ UNCHANGED notConv

\* serde_json::from_value::<ConversionResponse>(doc)
ReadResponse(doc) ==
    /\ cvReq = None
    /\ cvResp = None
    /\ cvDoc = <<>>
    /\ cvDoc' = <<doc>>
    /\ cvBack' = DeserializeResponse(doc)
    /\ UNCHANGED <<cvIn, cvReq, cvResp, cvCalls, cvGiven, cvReview, cvValue>>
    /\ UNCHANGED notConv

ConvNext ==
    \/ \E review \in IncomingReviews : CallFromReview(review)
    \/ CallForRequest
    \/ CallInvalid
    \/ \E objs \in ListsOf(Converted, MaxObjects) : CallSuccess(objs)
    \/ CallFailure
    \/ CallIntoReview
    \/ Send
    \/ \E review \in (IF cvDoc = <<>> /\ cvReq = None /\ cvResp = None
                       THEN Reviews ELSE {}) : RoundTrip(review)
    \/ \E doc \in (IF cvDoc = <<>> /\ cvReq = None /\ cvResp = None
                    THEN ResponseDocs ELSE {}) : ReadResponse(doc)

ConvInit ==
    /\ LeaseIdle /\ StoreIdle /\ ReflIdle /\ WatcherIdle /\ WaitIdle /\ UpgradeIdle
    /\ FlattenIdle /\ ClientIdle /\ EventsIdle
    /\ ConvIdle /\ VerbIdle /\ BoundaryIdle /\ PluralIdle /\ LogIdle

ConvSpec == ConvInit /\ [][ConvNext]_vars

(***************************************************************************)
(* Claims about the conversion envelope                                    *)
(***************************************************************************)

IsFailure(response) == response.result.status = "Failure"
IsSuccess(response) == response.result.status = "Success"

\* C21: every ConversionResponse whose result is a failure carries no
\* converted_objects, whatever calls of for_request, invalid, success and
\* failure made it.
C21_FailureCarriesNoObjects ==
    cvResp # None /\ IsFailure(Unwrap(cvResp)) =>
        Unwrap(cvResp).converted_objects = <<>>

\* C22 as stated: the successful response built from a request with N
\* objects has N converted_objects, the i-th being the conversion of the
\* request's i-th object.
C22_SuccessHasConversions ==
    cvReq # None /\ cvResp # None /\ IsSuccess(Unwrap(cvResp)) =>
        /\ Len(Unwrap(cvResp).converted_objects) = Len(Unwrap(cvReq).objects)
        /\ \A i \in 1..Len(Unwrap(cvReq).objects) :
             Unwrap(cvResp).converted_objects[i] = Convert(Unwrap(cvReq).objects[i])

\* C22 amended: the successful response built from a request carries the
\* list success was given, unchanged and in its order; when that list is
\* the conversions of the request's N objects in order, the response has N
\* converted_objects, the i-th being the conversion of the i-th object.
C22_SuccessKeepsGivenList ==
    cvReq # None /\ cvResp # None /\ IsSuccess(Unwrap(cvResp)) =>
        /\ Unwrap(cvResp).converted_objects = cvGiven
        /\ cvGiven = MapConvert(Unwrap(cvReq).objects) =>
             /\ Len(Unwrap(cvResp).converted_objects) = Len(Unwrap(cvReq).objects)
             /\ \A i \in 1..Len(Unwrap(cvReq).objects) :
                  Unwrap(cvResp).converted_objects[i]
                      = Convert(Unwrap(cvReq).objects[i])

\* C22 witness: a request with two different objects, answered with their
\* conversions in order.
C22_Witness ==
    /\ cvReq # None /\ cvResp # None
    /\ Unwrap(cvReq).objects = <<"b.v1", "a.v1">>
    /\ IsSuccess(Unwrap(cvResp))
    /\ Unwrap(cvResp).converted_objects = <<"b.v2", "a.v2">>

\* C23: a response built with for_request carries the request's uid and the
\* TypeMeta of the review the request came from, and into_review wraps it in
\* a review with that TypeMeta, the response set and no request; a response
\* built with invalid carries an empty uid and no objects and is wrapped
\* with apiVersion apiextensions.k8s.io/v1 and kind ConversionReview.
C23_Envelope ==
    /\ cvResp # None /\ cvCalls[1] = "for_request" =>
         /\ Unwrap(cvResp).uid = Unwrap(Unwrap(cvIn).request).uid
         /\ Unwrap(cvResp).types = Some(Unwrap(cvIn).types)
         /\ cvCalls = <<"for_request">> => Unwrap(cvResp).converted_objects = <<>>
         /\ cvReview # None =>
              /\ Unwrap(cvReview).types = Unwrap(cvIn).types
              /\ Unwrap(cvReview).request = None
              /\ Unwrap(cvReview).response # None
              /\ Unwrap(Unwrap(cvReview).response).uid = Unwrap(cvResp).uid
              /\ Unwrap(Unwrap(cvReview).response).result = Unwrap(cvResp).result
              /\ Unwrap(Unwrap(cvReview).response).converted_objects
                    = Unwrap(cvResp).converted_objects
    /\ cvResp # None /\ cvCalls[1] = "invalid" =>
         /\ Unwrap(cvResp).uid = ""
         /\ cvCalls = <<"invalid">> =>
              /\ Unwrap(cvResp).converted_objects = <<>>
              /\ IsFailure(Unwrap(cvResp))
         /\ cvReview # None =>
              /\ Unwrap(cvReview).types.api_version = "apiextensions.k8s.io/v1"
              /\ Unwrap(cvReview).types.kind = "ConversionReview"
              /\ Unwrap(cvReview).request = None
              /\ Unwrap(cvReview).response # None
              /\ Unwrap(Unwrap(cvReview).response).uid = ""

\* C23 witness: a review of another apiVersion than v1, its request
\* answered with for_request and wrapped by into_review.
C23_Witness ==
    /\ cvIn # None /\ cvReview # None
    /\ Unwrap(cvIn).types.api_version = "apiextensions.k8s.io/v1beta1"
    /\ cvCalls[1] = "for_request"
    /\ Unwrap(cvReview).types.api_version = "apiextensions.k8s.io/v1beta1"

\* A review as it comes back from the wire: the TypeMeta recorded inside
\* the request and the response is not serialized.
WithoutInnerTypes(review) ==
    [review EXCEPT
        !.request = IF review.request = None THEN None
                    ELSE Some([Unwrap(review.request) EXCEPT !.types = None]),
        !.response = IF review.response = None THEN None
                     ELSE Some([Unwrap(review.response) EXCEPT !.types = None])]

\* C24 as stated: serializing a ConversionReview and deserializing the
\* result yields a value equal to the original in every field, the TypeMeta
\* recorded inside the request and the response included.
C24_RoundTripEqual ==
    cvValue # None => cvBack.ok /\ cvBack.value = Unwrap(cvValue)

\* C24 amended: serializing a ConversionReview and deserializing the result
\* yields a value equal to the original in every field except the TypeMeta
\* recorded inside the request and the response, which comes back absent.
C24_RoundTripButInnerTypes ==
    cvValue # None =>
        /\ cvBack.ok
        /\ cvBack.value = WithoutInnerTypes(Unwrap(cvValue))
        /\ cvBack.value.types = Unwrap(cvValue).types

\* C24 witness: a review with a request and a response of two objects each,
\* both recording a TypeMeta, has made the round trip.
C24_Witness ==
    /\ cvValue # None /\ cvBack.ok
    /\ Unwrap(cvValue).request # None /\ Unwrap(cvValue).response # None
    /\ Unwrap(Unwrap(cvValue).request).types # None
    /\ Unwrap(Unwrap(cvValue).response).types # None
    /\ Len(Unwrap(Unwrap(cvValue).request).objects) = 2
    /\ Unwrap(Unwrap(cvValue).response).converted_objects = <<"b.v2", "a.v2">>
    /\ Unwrap(cvBack.value.response).converted_objects = <<"b.v2", "a.v2">>

\* C25: deserializing a ConversionResponse accepts a convertedObjects that
\* is null or missing and yields an empty list; a JSON array yields its
\* elements in the same order.
C25_NullOrMissingIsEmpty ==
    cvValue = None /\ cvDoc # <<>> =>
        /\ cvDoc[1].convertedObjects.json \in {"null", "missing"} =>
             cvBack.ok /\ cvBack.value.converted_objects = <<>>
        /\ cvDoc[1].convertedObjects.json = "array" =>
             /\ cvBack.ok
             /\ cvBack.value.converted_objects = cvDoc[1].convertedObjects.elems

(***************************************************************************)
(* Part 11.  The request builders: Verb::to_http_request of Get, List,     *)
(* Create, Delete, DeleteCollection, Patch and Replace                     *)
(* (kube/src/client/verb.rs)                                               *)
(***************************************************************************)

\* Names of objects, and objects: metadata.name may be missing.
Names == {"cm-a", "cm-b", "cm-c"}
KindObjects == {[name |-> n, data |-> d] : n \in OptionOf(Names), d \in {1, 2}}

\* params::Patch: the tagged patch variants.
PatchVariants == {"Json", "Merge", "Strategic", "Apply"}

NoObject == [name |-> None, data |-> 0]

\* The verbs and their fields.
VerbCall(verb, name, object, patch, query, limit, continue_token) ==
    [verb |-> verb, name |-> name, object |-> object, patch |-> patch,
     query |-> query, limit |-> limit, continue_token |-> continue_token]

Queries ==
    {[label_selector |-> l, field_selector |-> f] :
        l \in {NoneStr, "app=web", "app=db"}, f \in {NoneStr, "metadata.name=cm-a"}}

VerbCalls ==
    {VerbCall("Get", n, NoObject, "", Query(Lp), 0, NoneStr) : n \in Names}
    \cup {VerbCall("List", "", NoObject, "", q, l, c) :
            q \in Queries, l \in {0, 1, PageSize}, c \in {NoneStr} \cup Tokens}
    \cup {VerbCall("Create", "", o, "", Query(Lp), 0, NoneStr) : o \in KindObjects}
    \cup {VerbCall("Delete", n, NoObject, "", Query(Lp), 0, NoneStr) : n \in Names}
    \cup {VerbCall("DeleteCollection", "", NoObject, "", Query(Lp), 0, NoneStr)}
    \cup {VerbCall("Patch", n, NoObject, p, Query(Lp), 0, NoneStr) :
            n \in Names, p \in PatchVariants}
    \cup {VerbCall("Replace", "", o, "", Query(Lp), 0, NoneStr) : o \in KindObjects}

\* Result<Request<Body>>: the request built, or the error.
Built(method, path, qp, body) ==
    [ok |-> TRUE, method |-> method, path |-> path, qp |-> qp,
     headers |-> <<>>, body |-> body]
VerbError(error) == [ok |-> FALSE, error |-> error]

\* format!("{}/{}", Kind::url_path(..), name)
NamedPath(name) == BasePath \o "/" \o name

\* Get::to_http_request
GetRequest(c) == Built("GET", NamedPath(c.name), <<>>, <<>>)

\* A Create that does not look for the name.
CreateRequestBug(c) ==
    Built("POST", IF c.object.name = None THEN NamedPath("")
                  ELSE NamedPath(Unwrap(c.object.name)), <<>>, <<c.object>>)

\* Create::to_http_request
CreateRequest(c) ==
    IF c.object.name = None THEN VerbError("UnnamedObject")
    ELSE Built("POST", NamedPath(Unwrap(c.object.name)), <<>>, <<c.object>>)

\* Delete::to_http_request
DeleteRequest(c) == Built("DELETE", NamedPath(c.name), <<>>, <<>>)

\* DeleteCollection::to_http_request
DeleteCollectionRequest(c) == Built("DELETE", BasePath, <<>>, <<>>)

\* Patch::to_http_request: the patch is the body; no header, no query.
PatchRequest(c) == Built("PATCH", NamedPath(c.name), <<>>, <<c.patch>>)

\* Replace::to_http_request: built with Request::patch.
ReplaceRequest(c) ==
    IF c.object.name = None THEN VerbError("UnnamedObject")
    ELSE Built("PATCH", NamedPath(Unwrap(c.object.name)), <<>>, <<c.object>>)

\* Verb::to_http_request
ToHttpRequest(c) ==
    CASE c.verb = "Get" -> GetRequest(c)
      [] c.verb = "List" ->
            Built("GET", ListRequest(c.query, c.limit, c.continue_token).path,
                  ListRequest(c.query, c.limit, c.continue_token).qp, <<>>)
      [] c.verb = "Create" -> CreateRequest(c)
      [] c.verb = "Delete" -> DeleteRequest(c)
      [] c.verb = "DeleteCollection" -> DeleteCollectionRequest(c)
      [] c.verb = "Patch" -> PatchRequest(c)
      [] c.verb = "Replace" -> ReplaceRequest(c)

\* The verb's request is built.
Build ==
    /\ vcall # <<>>
    /\ vreq = <<>>
    /\ vreq' = ToHttpRequest(vcall)
    /\ UNCHANGED vcall
    /\ UNCHANGED notVerb

VerbNext == Build

VerbInit ==
    /\ LeaseIdle /\ StoreIdle /\ ReflIdle /\ WatcherIdle /\ WaitIdle /\ UpgradeIdle
    /\ FlattenIdle /\ ClientIdle /\ EventsIdle
    /\ ConvIdle /\ BoundaryIdle /\ PluralIdle /\ LogIdle
    /\ vcall \in VerbCalls
    /\ vreq = <<>>

VerbSpec == VerbInit /\ [][VerbNext]_vars

(***************************************************************************)
(* Claims about the request builders                                       *)
(***************************************************************************)

\* The name a verb addresses: its own, or the one of its object.
NameOf(c) == IF c.verb \in {"Create", "Replace"} THEN Unwrap(c.object.name) ELSE c.name

\* The method of the verb table.
TableMethod(verb) ==
    CASE verb \in {"Get", "List"} -> "GET"
      [] verb = "Create" -> "POST"
      [] verb \in {"Delete", "DeleteCollection"} -> "DELETE"
      [] verb = "Patch" -> "PATCH"
      [] verb = "Replace" -> "PUT"

\* C26: each verb builds a request with the method and path of the verb
\* table: Get is GET base/<name>, List is GET base with its query, Create is
\* POST base/<name>, Delete is DELETE base/<name>, DeleteCollection is DELETE
\* base, Patch is PATCH base/<name>, Replace is PUT base/<name>.
C26_VerbTable ==
    vreq # <<>> /\ vreq.ok =>
        /\ vreq.method = TableMethod(vcall.verb)
        /\ vreq.path = IF vcall.verb \in {"List", "DeleteCollection"} THEN BasePath
                       ELSE BasePath \o "/" \o NameOf(vcall)
        /\ vcall.verb = "List" =>
             /\ QueryValue(vreq, "labelSelector") = vcall.query.label_selector
             /\ QueryValue(vreq, "fieldSelector") = vcall.query.field_selector

\* The Content-Type of a patch variant.
ContentType(patch) ==
    CASE patch = "Json" -> "application/json-patch+json"
      [] patch = "Merge" -> "application/merge-patch+json"
      [] patch = "Strategic" -> "application/strategic-merge-patch+json"
      [] patch = "Apply" -> "application/apply-patch+yaml"

\* C27: the request built for a Patch carries the Content-Type header of
\* its patch variant, and a server-side apply request includes the
\* fieldManager query parameter.
C27_PatchContentType ==
    vreq # <<>> /\ vcall.verb = "Patch" =>
        /\ vreq.ok
        /\ \E i \in 1..Len(vreq.headers) :
             vreq.headers[i] = <<"Content-Type", ContentType(vcall.patch)>>
        /\ vcall.patch = "Apply" => QueryValue(vreq, "fieldManager") # NoneStr

MaxItems == 3

\* ObjectMeta: the namespace and name an object is addressed by.
Metas == {[namespace |-> "default", name |-> n] : n \in {"cm-a", "cm-b"}}

\* The JSON objects of a list: whether the object parses as T, and its
\* metadata section when that parses as ObjectMeta.  T is a resource with a
\* metadata section, so an object without one does not parse as T.
JsonObjects ==
    {[typed |-> t, metadata |-> Some(m)] : t \in BOOLEAN, m \in Metas}
    \cup {[typed |-> FALSE, metadata |-> None]}

\* T::deserialize(buffer.clone())
DeserializeT(json) ==
    IF json.typed THEN Parsed([metadata |-> Unwrap(json.metadata)])
    ELSE ParseError("invalid type")

\* ObjectMetaContainer::deserialize(buffer)
DeserializeMeta(json) ==
    IF json.metadata # None THEN Parsed(Unwrap(json.metadata))
    ELSE ParseError("missing field metadata")

\* A wrapper that gives up as soon as T does not parse.
DeserializeBoundaryBug(json) == DeserializeT(json)

\* Deserialize for ErrorBoundary<T>: Ok(T), or InvalidObject with the error
\* of T and the metadata; the error of the metadata is the wrapper's error.
DeserializeBoundary(json) ==
    IF DeserializeT(json).ok
    THEN Parsed([result |-> "Ok", value |-> DeserializeT(json).value,
                 error |-> "", metadata |-> DeserializeT(json).value.metadata])
    ELSE IF DeserializeMeta(json).ok
    THEN Parsed([result |-> "Err", value |-> <<>>,
                 error |-> DeserializeT(json).error,
                 metadata |-> DeserializeMeta(json).value])
    ELSE DeserializeMeta(json)

\* Resource::meta for ErrorBoundary<T>
Meta(boundary) ==
    IF boundary.result = "Ok" THEN boundary.value.metadata ELSE boundary.metadata

\* Deserialize for Vec<ErrorBoundary<T>>: the first error ends it.
RECURSIVE DeserializeList(_, _)
DeserializeList(jsons, n) ==
    IF n = 0 THEN Parsed(<<>>)
    ELSE IF ~DeserializeList(jsons, n - 1).ok THEN DeserializeList(jsons, n - 1)
    ELSE IF ~DeserializeBoundary(jsons[n]).ok THEN DeserializeBoundary(jsons[n])
    ELSE Parsed(Append(DeserializeList(jsons, n - 1).value,
                       DeserializeBoundary(jsons[n]).value))

\* The list is deserialized.
ReadList ==
    /\ bout = <<>>
    /\ bout' = DeserializeList(blist, Len(blist))
    /\ UNCHANGED blist
    /\ UNCHANGED notBoundary

BoundaryNext == ReadList

BoundaryInit ==
    /\ LeaseIdle /\ StoreIdle /\ ReflIdle /\ WatcherIdle /\ WaitIdle /\ UpgradeIdle
    /\ FlattenIdle /\ ClientIdle /\ EventsIdle
    /\ ConvIdle /\ VerbIdle /\ PluralIdle /\ LogIdle
    /\ blist \in ListsOf(JsonObjects, MaxItems)
    /\ bout = <<>>

BoundarySpec == BoundaryInit /\ [][BoundaryNext]_vars

(***************************************************************************)
(* Claims about the error boundary                                         *)
(***************************************************************************)

\* Every object of the list has its entry: Ok for one that parses as T, an
\* error entry with the parse error and the object's metadata for one that
\* does not, each addressed by the object's (namespace, name).
EntriesMatch ==
    /\ bout.ok
    /\ Len(bout.value) = Len(blist)
    /\ \A i \in 1..Len(blist) :
         /\ blist[i].typed => bout.value[i].result = "Ok"
         /\ ~blist[i].typed =>
              /\ bout.value[i].result = "Err"
              /\ bout.value[i].error # ""
              /\ bout.value[i].metadata = Unwrap(blist[i].metadata)
         /\ blist[i].metadata # None
         /\ Meta(bout.value[i]) = Unwrap(blist[i].metadata)

UpperCase == <<"A", "B", "C", "D", "E", "F", "G", "H", "I", "J", "K", "L", "M",
              "N", "O", "P", "Q", "R", "S", "T", "U", "V", "W", "X", "Y", "Z">>
LowerCase == <<"a", "b", "c", "d", "e", "f", "g", "h", "i", "j", "k", "l", "m",
              "n", "o", "p", "q", "r", "s", "t", "u", "v", "w", "x", "y", "z">>

\* char::to_ascii_lowercase
LowerChar(c) ==
    IF \E i \in 1..26 : UpperCase[i] = c
    THEN LowerCase[CHOOSE i \in 1..26 : UpperCase[i] = c]
    ELSE c

\* str::to_ascii_lowercase
Lowercase(w) == [i \in 1..Len(w) |-> LowerChar(w[i])]

\* str::ends_with
EndsWith(w, suffix) ==
    /\ Len(w) >= Len(suffix)
    /\ SubSeq(w, Len(w) - Len(suffix) + 1, Len(w)) = suffix

Vowels == {"a", "e", "i", "o", "u"}

\* A pluralizer that knows only +s and the y rule.
ToPluralBug(w) ==
    IF EndsWith(w, <<"y">>) /\ Len(w) >= 2 /\ w[Len(w) - 1] \notin Vowels
    THEN SubSeq(w, 1, Len(w) - 1) \o <<"i", "e", "s">>
    ELSE w \o <<"s">>

\* The call did not return: the thread panicked.
Panicked == <<"attempt to subtract with overflow">>

\* to_plural.  word.len() - 2 is a usize subtraction: for a word of one
\* character it panics in a build that checks overflow and wraps to a huge
\* index in one that does not, where chars().nth gives None.
ToPlural(w) ==
    IF \/ w = <<"e", "n", "d", "p", "o", "i", "n", "t", "s">>
       \/ w = <<"e", "n", "d", "p", "o", "i", "n", "t", "s", "l", "i", "c", "e", "s">>
    THEN w
    ELSE IF w = <<"n", "o", "d", "e", "m", "e", "t", "r", "i", "c", "s">>
    THEN <<"n", "o", "d", "e", "s">>
    ELSE IF w = <<"p", "o", "d", "m", "e", "t", "r", "i", "c", "s">> THEN <<"p", "o", "d", "s">>
    ELSE IF \/ EndsWith(w, <<"s">>) \/ EndsWith(w, <<"x">>) \/ EndsWith(w, <<"z">>)
            \/ EndsWith(w, <<"c", "h">>) \/ EndsWith(w, <<"s", "h">>)
    THEN w \o <<"e", "s">>
    ELSE IF EndsWith(w, <<"y">>) /\ Len(w) < 2
    THEN IF overflowChecks THEN Panicked ELSE w \o <<"s">>
    ELSE IF EndsWith(w, <<"y">>) /\ w[Len(w) - 1] \notin Vowels
    THEN SubSeq(w, 1, Len(w) - 1) \o <<"i", "e", "s">>
    ELSE w \o <<"s">>

\* test_to_plural_native: the native kinds and their known plurals.
NativeKinds ==
    <<
    <<<<"A", "P", "I", "S", "e", "r", "v", "i", "c", "e">>, <<"a", "p", "i", "s", "e", "r",
      "v", "i", "c", "e", "s">>>>,
    <<<<"B", "i", "n", "d", "i", "n", "g">>, <<"b", "i", "n", "d", "i", "n", "g", "s">>>>,
    <<<<"C", "e", "r", "t", "i", "f", "i", "c", "a", "t", "e", "S", "i", "g", "n", "i", "n",
      "g", "R", "e", "q", "u", "e", "s", "t">>, <<"c", "e", "r", "t", "i", "f", "i", "c", "a",
      "t", "e", "s", "i", "g", "n", "i", "n", "g", "r", "e", "q", "u", "e", "s", "t", "s">>>>,
    <<<<"C", "l", "u", "s", "t", "e", "r", "R", "o", "l", "e">>, <<"c", "l", "u", "s", "t",
      "e", "r", "r", "o", "l", "e", "s">>>>,
    <<<<"C", "l", "u", "s", "t", "e", "r", "R", "o", "l", "e", "B", "i", "n", "d", "i", "n",
      "g">>, <<"c", "l", "u", "s", "t", "e", "r", "r", "o", "l", "e", "b", "i", "n", "d", "i",
      "n", "g", "s">>>>,
    <<<<"C", "o", "m", "p", "o", "n", "e", "n", "t", "S", "t", "a", "t", "u", "s">>, <<"c",
      "o", "m", "p", "o", "n", "e", "n", "t", "s", "t", "a", "t", "u", "s", "e", "s">>>>,
    <<<<"C", "o", "n", "f", "i", "g", "M", "a", "p">>, <<"c", "o", "n", "f", "i", "g", "m",
      "a", "p", "s">>>>,
    <<<<"C", "o", "n", "t", "r", "o", "l", "l", "e", "r", "R", "e", "v", "i", "s", "i", "o",
      "n">>, <<"c", "o", "n", "t", "r", "o", "l", "l", "e", "r", "r", "e", "v", "i", "s", "i",
      "o", "n", "s">>>>,
    <<<<"C", "r", "o", "n", "J", "o", "b">>, <<"c", "r", "o", "n", "j", "o", "b", "s">>>>,
    <<<<"C", "S", "I", "D", "r", "i", "v", "e", "r">>, <<"c", "s", "i", "d", "r", "i", "v",
      "e", "r", "s">>>>,
    <<<<"C", "S", "I", "N", "o", "d", "e">>, <<"c", "s", "i", "n", "o", "d", "e", "s">>>>,
    <<<<"C", "S", "I", "S", "t", "o", "r", "a", "g", "e", "C", "a", "p", "a", "c", "i", "t",
      "y">>, <<"c", "s", "i", "s", "t", "o", "r", "a", "g", "e", "c", "a", "p", "a", "c", "i",
      "t", "i", "e", "s">>>>,
    <<<<"C", "u", "s", "t", "o", "m", "R", "e", "s", "o", "u", "r", "c", "e", "D", "e", "f",
      "i", "n", "i", "t", "i", "o", "n">>, <<"c", "u", "s", "t", "o", "m", "r", "e", "s", "o",
      "u", "r", "c", "e", "d", "e", "f", "i", "n", "i", "t", "i", "o", "n", "s">>>>,
    <<<<"D", "a", "e", "m", "o", "n", "S", "e", "t">>, <<"d", "a", "e", "m", "o", "n", "s",
      "e", "t", "s">>>>,
    <<<<"D", "e", "p", "l", "o", "y", "m", "e", "n", "t">>, <<"d", "e", "p", "l", "o", "y",
      "m", "e", "n", "t", "s">>>>,
    <<<<"E", "n", "d", "p", "o", "i", "n", "t", "s">>, <<"e", "n", "d", "p", "o", "i", "n",
      "t", "s">>>>,
    <<<<"E", "n", "d", "p", "o", "i", "n", "t", "S", "l", "i", "c", "e">>, <<"e", "n", "d",
      "p", "o", "i", "n", "t", "s", "l", "i", "c", "e", "s">>>>,
    <<<<"E", "v", "e", "n", "t">>, <<"e", "v", "e", "n", "t", "s">>>>,
    <<<<"F", "l", "o", "w", "S", "c", "h", "e", "m", "a">>, <<"f", "l", "o", "w", "s", "c",
      "h", "e", "m", "a", "s">>>>,
    <<<<"H", "o", "r", "i", "z", "o", "n", "t", "a", "l", "P", "o", "d", "A", "u", "t", "o",
      "s", "c", "a", "l", "e", "r">>, <<"h", "o", "r", "i", "z", "o", "n", "t", "a", "l", "p",
      "o", "d", "a", "u", "t", "o", "s", "c", "a", "l", "e", "r", "s">>>>,
    <<<<"I", "n", "g", "r", "e", "s", "s">>, <<"i", "n", "g", "r", "e", "s", "s", "e", "s">>>>,
    <<<<"I", "n", "g", "r", "e", "s", "s", "C", "l", "a", "s", "s">>, <<"i", "n", "g", "r",
      "e", "s", "s", "c", "l", "a", "s", "s", "e", "s">>>>,
    <<<<"J", "o", "b">>, <<"j", "o", "b", "s">>>>,
    <<<<"L", "e", "a", "s", "e">>, <<"l", "e", "a", "s", "e", "s">>>>,
    <<<<"L", "i", "m", "i", "t", "R", "a", "n", "g", "e">>, <<"l", "i", "m", "i", "t", "r",
      "a", "n", "g", "e", "s">>>>,
    <<<<"L", "o", "c", "a", "l", "S", "u", "b", "j", "e", "c", "t", "A", "c", "c", "e", "s",
      "s", "R", "e", "v", "i", "e", "w">>, <<"l", "o", "c", "a", "l", "s", "u", "b", "j", "e",
      "c", "t", "a", "c", "c", "e", "s", "s", "r", "e", "v", "i", "e", "w", "s">>>>,
    <<<<"M", "u", "t", "a", "t", "i", "n", "g", "W", "e", "b", "h", "o", "o", "k", "C", "o",
      "n", "f", "i", "g", "u", "r", "a", "t", "i", "o", "n">>, <<"m", "u", "t", "a", "t", "i",
      "n", "g", "w", "e", "b", "h", "o", "o", "k", "c", "o", "n", "f", "i", "g", "u", "r", "a",
      "t", "i", "o", "n", "s">>>>,
    <<<<"N", "a", "m", "e", "s", "p", "a", "c", "e">>, <<"n", "a", "m", "e", "s", "p", "a",
      "c", "e", "s">>>>,
    <<<<"N", "e", "t", "w", "o", "r", "k", "P", "o", "l", "i", "c", "y">>, <<"n", "e", "t",
      "w", "o", "r", "k", "p", "o", "l", "i", "c", "i", "e", "s">>>>,
    <<<<"N", "o", "d", "e">>, <<"n", "o", "d", "e", "s">>>>,
    <<<<"P", "e", "r", "s", "i", "s", "t", "e", "n", "t", "V", "o", "l", "u", "m", "e", "C",
      "l", "a", "i", "m">>, <<"p", "e", "r", "s", "i", "s", "t", "e", "n", "t", "v", "o", "l",
      "u", "m", "e", "c", "l", "a", "i", "m", "s">>>>,
    <<<<"P", "e", "r", "s", "i", "s", "t", "e", "n", "t", "V", "o", "l", "u", "m", "e">>,
      <<"p", "e", "r", "s", "i", "s", "t", "e", "n", "t", "v", "o", "l", "u", "m", "e", "s">>>>,
    <<<<"P", "o", "d", "D", "i", "s", "r", "u", "p", "t", "i", "o", "n", "B", "u", "d", "g",
      "e", "t">>, <<"p", "o", "d", "d", "i", "s", "r", "u", "p", "t", "i", "o", "n", "b", "u",
      "d", "g", "e", "t", "s">>>>,
    <<<<"P", "o", "d">>, <<"p", "o", "d", "s">>>>,
    <<<<"P", "o", "d", "S", "e", "c", "u", "r", "i", "t", "y", "P", "o", "l", "i", "c", "y">>,
      <<"p", "o", "d", "s", "e", "c", "u", "r", "i", "t", "y", "p", "o", "l", "i", "c", "i",
      "e", "s">>>>,
    <<<<"P", "o", "d", "T", "e", "m", "p", "l", "a", "t", "e">>, <<"p", "o", "d", "t", "e",
      "m", "p", "l", "a", "t", "e", "s">>>>,
    <<<<"P", "r", "i", "o", "r", "i", "t", "y", "C", "l", "a", "s", "s">>, <<"p", "r", "i",
      "o", "r", "i", "t", "y", "c", "l", "a", "s", "s", "e", "s">>>>,
    <<<<"P", "r", "i", "o", "r", "i", "t", "y", "L", "e", "v", "e", "l", "C", "o", "n", "f",
      "i", "g", "u", "r", "a", "t", "i", "o", "n">>, <<"p", "r", "i", "o", "r", "i", "t", "y",
      "l", "e", "v", "e", "l", "c", "o", "n", "f", "i", "g", "u", "r", "a", "t", "i", "o", "n",
      "s">>>>,
    <<<<"R", "e", "p", "l", "i", "c", "a", "S", "e", "t">>, <<"r", "e", "p", "l", "i", "c",
      "a", "s", "e", "t", "s">>>>,
    <<<<"R", "e", "p", "l", "i", "c", "a", "t", "i", "o", "n", "C", "o", "n", "t", "r", "o",
      "l", "l", "e", "r">>, <<"r", "e", "p", "l", "i", "c", "a", "t", "i", "o", "n", "c", "o",
      "n", "t", "r", "o", "l", "l", "e", "r", "s">>>>,
    <<<<"R", "e", "s", "o", "u", "r", "c", "e", "Q", "u", "o", "t", "a">>, <<"r", "e", "s",
      "o", "u", "r", "c", "e", "q", "u", "o", "t", "a", "s">>>>,
    <<<<"R", "o", "l", "e">>, <<"r", "o", "l", "e", "s">>>>,
    <<<<"R", "o", "l", "e", "B", "i", "n", "d", "i", "n", "g">>, <<"r", "o", "l", "e", "b",
      "i", "n", "d", "i", "n", "g", "s">>>>,
    <<<<"R", "u", "n", "t", "i", "m", "e", "C", "l", "a", "s", "s">>, <<"r", "u", "n", "t",
      "i", "m", "e", "c", "l", "a", "s", "s", "e", "s">>>>,
    <<<<"S", "e", "c", "r", "e", "t">>, <<"s", "e", "c", "r", "e", "t", "s">>>>,
    <<<<"S", "e", "l", "f", "S", "u", "b", "j", "e", "c", "t", "A", "c", "c", "e", "s", "s",
      "R", "e", "v", "i", "e", "w">>, <<"s", "e", "l", "f", "s", "u", "b", "j", "e", "c", "t",
      "a", "c", "c", "e", "s", "s", "r", "e", "v", "i", "e", "w", "s">>>>,
    <<<<"S", "e", "l", "f", "S", "u", "b", "j", "e", "c", "t", "R", "u", "l", "e", "s", "R",
      "e", "v", "i", "e", "w">>, <<"s", "e", "l", "f", "s", "u", "b", "j", "e", "c", "t", "r",
      "u", "l", "e", "s", "r", "e", "v", "i", "e", "w", "s">>>>,
    <<<<"S", "e", "r", "v", "i", "c", "e", "A", "c", "c", "o", "u", "n", "t">>, <<"s", "e",
      "r", "v", "i", "c", "e", "a", "c", "c", "o", "u", "n", "t", "s">>>>,
    <<<<"S", "e", "r", "v", "i", "c", "e">>, <<"s", "e", "r", "v", "i", "c", "e", "s">>>>,
    <<<<"S", "t", "a", "t", "e", "f", "u", "l", "S", "e", "t">>, <<"s", "t", "a", "t", "e",
      "f", "u", "l", "s", "e", "t", "s">>>>,
    <<<<"S", "t", "o", "r", "a", "g", "e", "C", "l", "a", "s", "s">>, <<"s", "t", "o", "r",
      "a", "g", "e", "c", "l", "a", "s", "s", "e", "s">>>>,
    <<<<"S", "t", "o", "r", "a", "g", "e", "V", "e", "r", "s", "i", "o", "n">>, <<"s", "t",
      "o", "r", "a", "g", "e", "v", "e", "r", "s", "i", "o", "n", "s">>>>,
    <<<<"S", "u", "b", "j", "e", "c", "t", "A", "c", "c", "e", "s", "s", "R", "e", "v", "i",
      "e", "w">>, <<"s", "u", "b", "j", "e", "c", "t", "a", "c", "c", "e", "s", "s", "r", "e",
      "v", "i", "e", "w", "s">>>>,
    <<<<"T", "o", "k", "e", "n", "R", "e", "v", "i", "e", "w">>, <<"t", "o", "k", "e", "n",
      "r", "e", "v", "i", "e", "w", "s">>>>,
    <<<<"V", "a", "l", "i", "d", "a", "t", "i", "n", "g", "W", "e", "b", "h", "o", "o", "k",
      "C", "o", "n", "f", "i", "g", "u", "r", "a", "t", "i", "o", "n">>, <<"v", "a", "l", "i",
      "d", "a", "t", "i", "n", "g", "w", "e", "b", "h", "o", "o", "k", "c", "o", "n", "f", "i",
      "g", "u", "r", "a", "t", "i", "o", "n", "s">>>>,
    <<<<"V", "o", "l", "u", "m", "e", "A", "t", "t", "a", "c", "h", "m", "e", "n", "t">>,
      <<"v", "o", "l", "u", "m", "e", "a", "t", "t", "a", "c", "h", "m", "e", "n", "t", "s">>>>
    >>

\* Kinds outside the table.
OtherKinds ==
    {<<"N", "o", "d", "e", "M", "e", "t", "r", "i", "c", "s">>,
     <<"P", "o", "d", "M", "e", "t", "r", "i", "c", "s">>,
     <<"G", "a", "t", "e", "w", "a", "y">>, <<"B", "o", "x">>,
     <<"P", "a", "t", "c", "h">>, <<"M", "e", "s", "h">>,
     <<>>, <<"y">>, <<"Y">>, <<"a", "y">>, <<"m", "y">>}

\* to_plural(&kind.to_ascii_lowercase())
Pluralize ==
    /\ plural = <<>>
    /\ plural' = ToPlural(Lowercase(word))
    /\ UNCHANGED <<word, overflowChecks>>
    /\ UNCHANGED notPlural

PluralNext == Pluralize

PluralInit ==
    /\ LeaseIdle /\ StoreIdle /\ ReflIdle /\ WatcherIdle /\ WaitIdle /\ UpgradeIdle
    /\ FlattenIdle /\ ClientIdle /\ EventsIdle
    /\ ConvIdle /\ VerbIdle /\ BoundaryIdle /\ LogIdle
    /\ word \in {NativeKinds[i][1] : i \in 1..Len(NativeKinds)} \cup OtherKinds
    /\ plural = <<>>
    /\ overflowChecks \in BOOLEAN

PluralSpec == PluralInit /\ [][PluralNext]_vars

(***************************************************************************)
(* Claims about to_plural                                                  *)
(***************************************************************************)

\* C30: to_plural applied to the lowercased kind is the known plural of
\* every native kind of the test table (Ingress gives ingresses,
\* NetworkPolicy networkpolicies, Endpoints endpoints, EndpointSlice
\* endpointslices), the rules applied in order: the fixed exceptions, +es
\* after s, x, z, ch or sh, ies for a consonant and y, otherwise +s.
C30_NativePlurals ==
    plural # <<>> =>
        \A i \in 1..Len(NativeKinds) :
            word = NativeKinds[i][1] => plural = NativeKinds[i][2]

\* C30 witness: Ingress has been given its plural ingresses.
C30_Witness ==
    /\ word = <<"I", "n", "g", "r", "e", "s", "s">>
    /\ plural = <<"i", "n", "g", "r", "e", "s", "s", "e", "s">>

\* C40: to_plural returns a plural, without panicking on an arithmetic
\* underflow, for every word, the empty word and the one-letter word y
\* included.
C40_NeverPanics == plural # Panicked

(***************************************************************************)
(* Part 14.  The log request: Resource::logs                               *)
(* (kube/src/api/subresource.rs)                                           *)
(***************************************************************************)

\* Values given to the LogParams fields.
Containers == {"blah", "a b"}
ByteLimits == {0, 1024}
Seconds == {60}
Lines == {10}

\* LogParams, with the values given to its fields.
LogParamsSet ==
    [container : OptionOf(Containers), follow : BOOLEAN,
     limit_bytes : OptionOf(ByteLimits), pretty : BOOLEAN, previous : BOOLEAN,
     since_seconds : OptionOf(Seconds), tail_lines : OptionOf(Lines),
     timestamps : BOOLEAN]

DecimalDigits == <<"0", "1", "2", "3", "4", "5", "6", "7", "8", "9">>

\* i64::to_string
RECURSIVE I64ToString(_)
I64ToString(n) ==
    IF n < 0 THEN "-" \o I64ToString(0 - n)
    ELSE IF n < 10 THEN DecimalDigits[n + 1]
    ELSE I64ToString(n \div 10) \o DecimalDigits[(n % 10) + 1]

\* form_urlencoded::byte_serialize on the values used here: a space becomes +.
ByteSerialize(text) == IF text = "a b" THEN "a+b" ELSE text

\* Serializer::append_pair on a Serializer::new(target): the target is kept as
\* the pieces that were pushed onto it; the separator is pushed whenever the
\* target is not empty, and it holds the base URL from the start.
AppendPair(target, key, value) ==
    (IF target # <<>> THEN Append(target, "&") ELSE target)
        \o <<ByteSerialize(key), "=", ByteSerialize(value)>>

\* append_pair under the condition the code puts on it.
AppendIf(target, cond, key, value) ==
    IF cond THEN AppendPair(target, key, value) ELSE target

\* A log request that writes every flag with its value.
LogsBug(name, lp) ==
    LET q0 == <<BasePath \o "/" \o name \o "/" \o "log?">>
        q1 == AppendIf(q0, lp.container # None, "container",
                       IF lp.container # None THEN Unwrap(lp.container) ELSE "")
        q2 == AppendPair(q1, "follow", IF lp.follow THEN "true" ELSE "false")
    IN  [method |-> "GET", uri |-> q2, body |-> <<>>]

\* Resource::logs
Logs(name, lp) ==
    LET base_url == BasePath \o "/" \o name \o "/" \o "log?"
        q0 == <<base_url>>
        q1 == AppendIf(q0, lp.container # None, "container",
                       IF lp.container # None THEN Unwrap(lp.container) ELSE "")
        q2 == AppendIf(q1, lp.follow, "follow", "true")
        q3 == AppendIf(q2, lp.limit_bytes # None, "limitBytes",
                       IF lp.limit_bytes # None
                       THEN I64ToString(Unwrap(lp.limit_bytes)) ELSE "")
        q4 == AppendIf(q3, lp.pretty, "pretty", "true")
        q5 == AppendIf(q4, lp.previous, "previous", "true")
        q6 == AppendIf(q5, lp.since_seconds # None, "sinceSeconds",
                       IF lp.since_seconds # None
                       THEN I64ToString(Unwrap(lp.since_seconds)) ELSE "")
        q7 == AppendIf(q6, lp.tail_lines # None, "tailLines",
                       IF lp.tail_lines # None
                       THEN I64ToString(Unwrap(lp.tail_lines)) ELSE "")
        q8 == AppendIf(q7, lp.timestamps, "timestamps", "true")
    IN  [method |-> "GET", uri |-> q8, body |-> <<>>]

\* r.logs(name, &lp)
CallLogs ==
    /\ logReq = <<>>
    /\ logReq' = Logs(logCall.name, logCall.lp)
    /\ UNCHANGED logCall
    /\ UNCHANGED notLog

LogNext == CallLogs

LogInit ==
    /\ LeaseIdle /\ StoreIdle /\ ReflIdle /\ WatcherIdle /\ WaitIdle /\ UpgradeIdle
    /\ FlattenIdle /\ ClientIdle /\ EventsIdle
    /\ ConvIdle /\ VerbIdle /\ BoundaryIdle /\ PluralIdle
    /\ logCall \in [name : {"foo", "bar"}, lp : LogParamsSet]
    /\ logReq = <<>>

LogSpec == LogInit /\ [][LogNext]_vars

(***************************************************************************)
(* Claims about the log request                                            *)
(***************************************************************************)

\* The key=value pairs of the pieces after the base URL, as decoding the query
\* gives them: the pieces between separators, an empty piece being none.
QueryPairs(uri) ==
    {<<uri[i - 1], uri[i + 1]>> : i \in {j \in 3..(Len(uri) - 1) : uri[j] = "="}}

\* What the claim puts in the query for lp.
ExpectedPairs(lp) ==
    {<<"container", IF c = "a b" THEN "a+b" ELSE c>> :
        c \in {x \in Containers : lp.container = <<x>>}}
    \cup {<<"limitBytes", IF n = 0 THEN "0" ELSE "1024">> :
        n \in {x \in ByteLimits : lp.limit_bytes = <<x>>}}
    \cup {<<"sinceSeconds", "60">> : n \in {x \in Seconds : lp.since_seconds = <<x>>}}
    \cup {<<"tailLines", "10">> : n \in {x \in Lines : lp.tail_lines = <<x>>}}
    \cup {<<"follow", "true">> : b \in {x \in {TRUE} : lp.follow}}
    \cup {<<"pretty", "true">> : b \in {x \in {TRUE} : lp.pretty}}
    \cup {<<"previous", "true">> : b \in {x \in {TRUE} : lp.previous}}
    \cup {<<"timestamps", "true">> : b \in {x \in {TRUE} : lp.timestamps}}

\* C31: the log request URL is base/<name>/log followed by a query holding
\* each optional parameter (container, limitBytes, sinceSeconds, tailLines)
\* exactly when it is set and each flag (follow, pretty, previous, timestamps)
\* exactly when it is true, with the value true; no key is written for an
\* unset or false parameter, none twice, and none is empty.
C31_LogQuery ==
    logReq # <<>> =>
        /\ logReq.method = "GET"
        /\ logReq.uri[1] = "/api/v1/nodes/" \o logCall.name \o "/log?"
        /\ QueryPairs(logReq.uri) = ExpectedPairs(logCall.lp)
        /\ Len(logReq.uri) = 1 + 4 * Cardinality(ExpectedPairs(logCall.lp))
        /\ \A i \in 2..Len(logReq.uri) : logReq.uri[i] # ""
        /\ \A i \in 2..Len(logReq.uri) : (i % 4 = 2) <=> (logReq.uri[i] = "&")

\* C31 witness: logs of the container of the log_path test, followed, with
\* timestamps and a byte limit: four pairs, each after a separator.
C31_Witness ==
    /\ logReq # <<>>
    /\ logCall.name = "foo"
    /\ logCall.lp.container = <<"blah">>
    /\ logCall.lp.follow /\ logCall.lp.timestamps
    /\ logCall.lp.limit_bytes = <<1024>>
    /\ logReq.uri = <<"/api/v1/nodes/foo/log?", "&", "container", "=", "blah",
                      "&", "follow", "=", "true", "&", "limitBytes", "=", "1024",
                      "&", "timestamps", "=", "true">>

====
